---- MODULE Spec2Model ----
(***************************************************************************)
(* Budget-Correction: the rule-based extractor (utils/parser.py) and the   *)
(* formula validator (utils/validator.py).                                 *)
(*                                                                         *)
(* Text is modelled character by character: a Python str is a sequence of  *)
(* one-character strings.  Python's None is the record None.  A float is   *)
(* NaN, Inf(sign) or an exact rational Num(n, d) in lowest terms.          *)
(***************************************************************************)
EXTENDS Integers, Sequences, FiniteSets, TLC

VARIABLES
    pc,             \* which call is pending / has returned
    value,          \* _parse_number: the cell value handed in
    number,         \* _parse_number: what it returned
    tables_data,    \* _parse_budget_tables: the raw tables handed in
    result,         \* _parse_budget_tables: the record it returned
    tolerance,      \* BudgetValidator.tolerance
    inflation_rate, \* BudgetValidator.inflation_rate
    actual,         \* _compare_values: the submitted value
    expected,       \* _compare_values: the recomputed value
    comparison,     \* _compare_values: the ValidationResult it returned
    extracted_data, \* validate: the canonical record handed in
    report,         \* validate: the ScoreReport it returned, or what it raised
    uploaded_file,  \* app.py: the file of st.file_uploader
    st_error,       \* app.py: the messages shown with st.error
    provider,       \* AIGrader.provider
    response        \* AIGrader: what the service answers to the successive calls

vars == <<pc, value, number, tables_data, result, tolerance, inflation_rate,
          actual, expected, comparison, extracted_data, report,
          uploaded_file, st_error, provider, response>>

(***************************************************************************)
(* Bounds of the model.                                                    *)
(***************************************************************************)
\* longest cell text drawn character by character for _parse_number
MaxLen == 3
\* most tables of a document
MaxTables == 2
\* most data rows of a table whose rows are drawn from the row pool
MaxRows == 2

(***************************************************************************)
(* Values.                                                                 *)
(***************************************************************************)
None == [k |-> "None"]
Unset == [k |-> "unset"]
NaN == [k |-> "nan"]
Inf(sign) == [k |-> "inf", sign |-> sign]
Str(s) == [k |-> "str", s |-> s]

\* an exception that left a call, in place of what the call returns
Raise(exc) == [exc |-> exc]
Raised(x) == "exc" \in DOMAIN x

Abs(x) == IF x < 0 THEN -x ELSE x

RECURSIVE GCD(_, _)
GCD(a, b) == IF b = 0 THEN a ELSE GCD(b, a % b)

\* the rational n/d (d # 0) in lowest terms with a positive denominator
Num(n, d) ==
    LET g == GCD(Abs(n), Abs(d))
        s == IF d < 0 THEN -1 ELSE 1
    IN  [k |-> "num", n |-> (s * n) \div g, d |-> (s * d) \div g]

Int2Num(i) == Num(i, 1)
IsNum(x) == x.k = "num"

RECURSIVE Pow10(_)
Pow10(e) == IF e = 0 THEN 1 ELSE 10 * Pow10(e - 1)

(***************************************************************************)
(* Characters and str methods.                                             *)
(***************************************************************************)
Digits == {"0", "1", "2", "3", "4", "5", "6", "7", "8", "9"}
UpperSeq == <<"A","B","C","D","E","F","G","H","I","J","K","L","M",
              "N","O","P","Q","R","S","T","U","V","W","X","Y","Z">>
LowerSeq == <<"a","b","c","d","e","f","g","h","i","j","k","l","m",
              "n","o","p","q","r","s","t","u","v","w","x","y","z">>
Letters == {UpperSeq[i] : i \in 1..26} \cup {LowerSeq[i] : i \in 1..26}
\* \s of the re module and str.split()/strip(): the whitespace the model draws
Whitespace == {" ", "\t", "\n"}
\* \w of the re module
WordChars == Letters \cup Digits \cup {"_"}

DigitVal(c) ==
    CASE c = "0" -> 0 [] c = "1" -> 1 [] c = "2" -> 2 [] c = "3" -> 3
      [] c = "4" -> 4 [] c = "5" -> 5 [] c = "6" -> 6 [] c = "7" -> 7
      [] c = "8" -> 8 [] c = "9" -> 9

LowerChar(c) ==
    IF \E i \in 1..26 : UpperSeq[i] = c
    THEN LowerSeq[CHOOSE i \in 1..26 : UpperSeq[i] = c]
    ELSE c

\* str.lower()
Lower(s) == [i \in 1..Len(s) |-> LowerChar(s[i])]

\* str.strip()
RECURSIVE LStrip(_)
LStrip(s) == IF s # <<>> /\ Head(s) \in Whitespace THEN LStrip(Tail(s)) ELSE s
RECURSIVE RStrip(_)
RStrip(s) ==
    IF s # <<>> /\ s[Len(s)] \in Whitespace
    THEN RStrip(SubSeq(s, 1, Len(s) - 1))
    ELSE s
Strip(s) == RStrip(LStrip(s))

\* re.sub(r'[...]', '', s): s without the characters of the class
RemoveChars(s, class) == SelectSeq(s, LAMBDA c : c \notin class)

\* `kw in s` for strings
Contains(s, kw) ==
    \E i \in 0..(Len(s) - Len(kw)) : SubSeq(s, i + 1, i + Len(kw)) = kw

\* s.split(sep) for a one-character separator
RECURSIVE Split(_, _)
Split(s, sep) ==
    IF \E i \in 1..Len(s) : s[i] = sep
    THEN LET i == CHOOSE j \in 1..Len(s) :
                     s[j] = sep /\ \A h \in 1..(j - 1) : s[h] # sep
         IN  <<SubSeq(s, 1, i - 1)>> \o Split(SubSeq(s, i + 1, Len(s)), sep)
    ELSE <<s>>

DigitSeq == <<"0", "1", "2", "3", "4", "5", "6", "7", "8", "9">>

\* str(n) of an int n >= 0
RECURSIVE IntStr(_)
IntStr(n) ==
    IF n < 10 THEN <<DigitSeq[n + 1]>>
    ELSE IntStr(n \div 10) \o <<DigitSeq[(n % 10) + 1]>>

\* a cell that holds a Python int (a spreadsheet cell read with values_only)
IntCell(n) == [k |-> "int", n |-> n]

\* the decimal digits of r/d for 0 <= r < d, d a divisor of a power of ten
RECURSIVE FracDigits(_, _)
FracDigits(r, d) ==
    IF r = 0 THEN <<>>
    ELSE <<DigitSeq[((10 * r) \div d) + 1]>> \o FracDigits((10 * r) % d, d)

\* str(x) of a float x: nan, inf, or the shortest decimal that reads back as
\* x, which for a binary fraction of magnitude in [1e-4, 1e16) is its exact
\* decimal expansion with at least one digit after the point
FloatStr(x) ==
    IF x = NaN THEN <<"n","a","n">>
    ELSE IF x.k = "inf" THEN (IF x.sign = 1 THEN <<"i","n","f">> ELSE <<"-","i","n","f">>)
    ELSE LET m    == Abs(x.n)
             frac == FracDigits(m % x.d, x.d)
         IN  (IF x.n < 0 THEN <<"-">> ELSE <<>>) \o IntStr(m \div x.d) \o <<".">>
                 \o (IF frac = <<>> THEN <<"0">> ELSE frac)

(***************************************************************************)
(* float(str): Python's float literal grammar and its value.               *)
(***************************************************************************)
ValueError == [k |-> "ValueError"]

\* digit (_? digit)* : the digit groups of a float literal
DigitGroup(g) ==
    /\ g # <<>>
    /\ g[1] \in Digits
    /\ g[Len(g)] \in Digits
    /\ \A i \in 1..Len(g) : g[i] \in Digits \cup {"_"}
    /\ \A i \in 1..(Len(g) - 1) : ~(g[i] = "_" /\ g[i + 1] = "_")

RECURSIVE DigitsValue(_)
DigitsValue(g) ==
    IF g = <<>> THEN 0
    ELSE 10 * DigitsValue(SubSeq(g, 1, Len(g) - 1)) + DigitVal(g[Len(g)])

RECURSIVE NumDigits(_)
NumDigits(m) == IF m < 10 THEN 1 ELSE 1 + NumDigits(m \div 10)

FirstIndex(s, class) ==
    IF \E i \in 1..Len(s) : s[i] \in class
    THEN CHOOSE i \in 1..Len(s) : s[i] \in class /\ \A h \in 1..(i - 1) : s[h] \notin class
    ELSE 0

\* The largest finite double is 1.7976931348623157e308, the smallest
\* positive one 4.9e-324: beyond them float() gives inf and 0.0.  Between
\* them the decimal value is kept exactly.
\* the value of mantissa digits m (an integer), f of them after the point,
\* times 10^e
DecimalValue(sign, m, f, e) ==
    LET order == NumDigits(m) + e - f
        lead  == IF NumDigits(m) <= 4 THEN m * Pow10(4 - NumDigits(m))
                 ELSE m \div Pow10(NumDigits(m) - 4)
    IN  IF m = 0 THEN Num(0, 1)
        ELSE IF order > 309 \/ (order = 309 /\ lead >= 1798) THEN Inf(sign)
        ELSE IF order < -323 THEN Num(0, 1)
        ELSE IF e - f >= 0 THEN Num(sign * m * Pow10(e - f), 1)
        ELSE Num(sign * m, Pow10(f - e))

PyFloat(str) ==
    LET t     == Strip(str)
        signed == t # <<>> /\ t[1] \in {"+", "-"}
        sign  == IF signed /\ t[1] = "-" THEN -1 ELSE 1
        r     == IF signed THEN Tail(t) ELSE t
        word  == Lower(r)
        ei    == FirstIndex(r, {"e", "E"})
        mant  == IF ei = 0 THEN r ELSE SubSeq(r, 1, ei - 1)
        expo  == IF ei = 0 THEN <<>> ELSE SubSeq(r, ei + 1, Len(r))
        esigned == expo # <<>> /\ expo[1] \in {"+", "-"}
        esign == IF esigned /\ expo[1] = "-" THEN -1 ELSE 1
        edig  == IF esigned THEN Tail(expo) ELSE expo
        pi    == FirstIndex(mant, {"."})
        ip    == IF pi = 0 THEN mant ELSE SubSeq(mant, 1, pi - 1)
        fp    == IF pi = 0 THEN <<>> ELSE SubSeq(mant, pi + 1, Len(mant))
        ipd   == RemoveChars(ip, {"_"})
        fpd   == RemoveChars(fp, {"_"})
        wellformed ==
            /\ ip = <<>> \/ DigitGroup(ip)
            /\ fp = <<>> \/ DigitGroup(fp)
            /\ ip # <<>> \/ fp # <<>>
            /\ ei = 0 \/ DigitGroup(edig)
    IN  IF word \in {<<"i","n","f">>, <<"i","n","f","i","n","i","t","y">>} THEN Inf(sign)
        ELSE IF word = <<"n","a","n">> THEN NaN
        ELSE IF ~wellformed THEN ValueError
        ELSE DecimalValue(sign, DigitsValue(ipd \o fpd), Len(fpd),
                          IF ei = 0 THEN 0
                          ELSE esign * DigitsValue(RemoveChars(edig, {"_"})))

(***************************************************************************)
(* DocumentParser._parse_number                                            *)
(***************************************************************************)
\* str(cell) of a cell that is None, a str, an int or a float
PyStr(cell) ==
    IF cell = None THEN <<"N","o","n","e">>
    ELSE IF cell.k = "str" THEN cell.s
    ELSE IF cell.k = "int" THEN (IF cell.n < 0 THEN <<"-">> ELSE <<>>) \o IntStr(Abs(cell.n))
    ELSE FloatStr(cell)

\* the truth value of a cell: `if not text`
Truthy(cell) ==
    /\ cell # None
    /\ cell.k = "str" => cell.s # <<>>
    /\ cell.k \in {"int", "num"} => cell.n # 0

\* mutant: the part after the first '=' (parts[1]) instead of the last
FormulaResult_FirstPart(value_str) ==
    LET parts == Split(value_str, "=")
    IN  IF Len(parts) >= 2 THEN Strip(parts[2]) ELSE value_str

\* the result part of an inline formula: parts[-1] of value_str.split('=')
FormulaResult(value_str) ==
    LET parts == Split(value_str, "=")
    IN  IF Len(parts) >= 2 THEN Strip(parts[Len(parts)]) ELSE value_str

\* mutant: a failed parse coerced to zero
FloatOrNone_Zero(value_str) ==
    LET v == PyFloat(value_str) IN IF v = ValueError THEN Num(0, 1) ELSE v

\* what the except clause around float() returns
FloatOrNone(value_str) ==
    LET v == PyFloat(value_str) IN IF v = ValueError THEN None ELSE v

_parse_number(v) ==
    IF v = None \/ v = Str(<<>>) \/ Lower(PyStr(v)) = <<"n","o","n","e">> THEN None
    ELSE LET s1 == Strip(PyStr(v))
             s2 == IF Contains(s1, <<"=">>) THEN FormulaResult(s1) ELSE s1
             s3 == RemoveChars(s2, {"$", ","} \cup Whitespace \cup {"%"})
         IN  IF s1 = <<>> THEN None
             ELSE IF s3 = <<>> THEN None
             ELSE FloatOrNone(s3)

(***************************************************************************)
(* DocumentParser._clean_text                                              *)
(***************************************************************************)
\* str.split(): the maximal runs of non-whitespace
RECURSIVE SplitWords(_)
SplitWords(s) ==
    LET t == LStrip(s)
        n == FirstIndex(t, Whitespace)
    IN  IF t = <<>> THEN <<>>
        ELSE IF n = 0 THEN <<t>>
        ELSE <<SubSeq(t, 1, n - 1)>> \o SplitWords(SubSeq(t, n, Len(t)))

\* ' '.join(words)
RECURSIVE JoinSpace(_)
JoinSpace(words) ==
    IF words = <<>> THEN <<>>
    ELSE IF Len(words) = 1 THEN words[1]
    ELSE words[1] \o <<" ">> \o JoinSpace(Tail(words))

\* the characters re.sub(r'[^\w\s\-/(),.]', '', cleaned) keeps
KeptChars == WordChars \cup Whitespace \cup {"-", "/", "(", ")", ",", "."}

_clean_text(text) ==
    IF ~Truthy(text) THEN <<>>
    ELSE Strip(SelectSeq(JoinSpace(SplitWords(PyStr(text))),
                         LAMBDA c : c \in KeptChars))

(***************************************************************************)
(* Header rows, column maps and rows.                                      *)
(***************************************************************************)
\* [str(cell).lower().strip() for cell in table[0]]
Headers(table) ==
    [i \in 1..Len(table[1]) |-> Strip(Lower(PyStr(table[1][i])))]

\* any(kw in h for h in headers)
AnyHeader(headers, kw) == \E i \in 1..Len(headers) : Contains(headers[i], kw)

\* row[i] raises IndexError for one of the indices the item is built from
IndexError(row, col_map) ==
    \/ \E key \in DOMAIN col_map : col_map[key] >= Len(row)
    \/ "description" \notin DOMAIN col_map /\ Len(row) = 0

\* self._parse_number(row[col_map[key]]) if key in col_map else None
Field(row, col_map, key) ==
    IF key \in DOMAIN col_map THEN _parse_number(row[col_map[key] + 1]) ELSE None

\* self._clean_text(row[col_map.get('description', 0)])
Description(row, col_map) ==
    _clean_text(row[(IF "description" \in DOMAIN col_map
                     THEN col_map["description"] ELSE 0) + 1])

\* re.search(r'\b(total|subtotal|sum)\b', desc_lower)
SearchWord(s, w) ==
    \E i \in 1..(Len(s) - Len(w) + 1) :
        /\ SubSeq(s, i, i + Len(w) - 1) = w
        /\ i = 1 \/ s[i - 1] \notin WordChars
        /\ i + Len(w) - 1 = Len(s) \/ s[i + Len(w)] \notin WordChars
SkipPattern(desc_lower) ==
    \E w \in {<<"t","o","t","a","l">>, <<"s","u","b","t","o","t","a","l">>, <<"s","u","m">>} : SearchWord(desc_lower, w)

\* mutant: the pattern searched in the description as written, not lower-cased
Appended_CaseSensitive(description) ==
    description # <<>> /\ ~SkipPattern(description)

\* item['description'] and not re.search(skip_pattern, desc_lower)
Appended(description) ==
    description # <<>> /\ ~SkipPattern(Lower(description))

(***************************************************************************)
(* The column rules of the three table kinds and col_map.                  *)
(***************************************************************************)
\* mutant: the 2024 test made before the 2025/estimate test
FixedColumn_2024First(h, i, n) ==
    IF Contains(h, <<"d","e","s","c","r","i","p","t","i","o","n">>) \/ Contains(h, <<"e","x","p","e","n","s","e">>) \/ Contains(h, <<"i","t","e","m">>)
    THEN "description"
    ELSE IF Contains(h, <<"5">>) /\ Contains(h, <<"m","o","n","t","h">>) THEN "5_month"
    ELSE IF /\ Contains(h, <<"m","o","n","t","h","l","y">>) /\ ~Contains(h, <<"2","0","2","4">>)
            /\ ~Contains(h, <<"2","0","2","5">>) /\ ~Contains(h, <<"y","e","a","r">>)
    THEN "monthly"
    ELSE IF Contains(h, <<"2","0","2","4">>) THEN "2024_year"
    ELSE IF Contains(h, <<"2","0","2","5">>) \/ Contains(h, <<"e","s","t","i","m","a","t","e">>) THEN "2025_estimate"
    ELSE IF Contains(h, <<"i","n","f","l","a","t","i","o","n">>) /\ (Contains(h, <<"r","a","t","e">>) \/ Contains(h, <<"%">>))
    THEN "inflation_rate"
    ELSE IF /\ Contains(h, <<"i","n","f","l","a","t","i","o","n">>)
            /\ (Contains(h, <<"a","m","o","u","n","t">>) \/ Contains(h, <<"$">>) \/ Contains(h, <<"d","o","l","l","a","r">>))
    THEN "inflation_amount"
    ELSE "unmapped"

\* mutant: the 'inflation' test made once, without the rate and amount
\* qualifiers
FixedColumn_AnyInflation(h, i, n) ==
    IF Contains(h, <<"d","e","s","c","r","i","p","t","i","o","n">>) \/ Contains(h, <<"e","x","p","e","n","s","e">>) \/ Contains(h, <<"i","t","e","m">>)
    THEN "description"
    ELSE IF Contains(h, <<"5">>) /\ Contains(h, <<"m","o","n","t","h">>) THEN "5_month"
    ELSE IF /\ Contains(h, <<"m","o","n","t","h","l","y">>) /\ ~Contains(h, <<"2","0","2","4">>)
            /\ ~Contains(h, <<"2","0","2","5">>) /\ ~Contains(h, <<"y","e","a","r">>)
    THEN "monthly"
    ELSE IF Contains(h, <<"2","0","2","5">>) \/ Contains(h, <<"e","s","t","i","m","a","t","e">>) THEN "2025_estimate"
    ELSE IF Contains(h, <<"2","0","2","4">>) THEN "2024_year"
    ELSE IF Contains(h, <<"i","n","f","l","a","t","i","o","n">>) THEN "inflation_amount"
    ELSE "unmapped"

FixedColumn(h, i, n) ==
    IF Contains(h, <<"d","e","s","c","r","i","p","t","i","o","n">>) \/ Contains(h, <<"e","x","p","e","n","s","e">>) \/ Contains(h, <<"i","t","e","m">>)
    THEN "description"
    ELSE IF Contains(h, <<"5">>) /\ Contains(h, <<"m","o","n","t","h">>) THEN "5_month"
    ELSE IF /\ Contains(h, <<"m","o","n","t","h","l","y">>) /\ ~Contains(h, <<"2","0","2","4">>)
            /\ ~Contains(h, <<"2","0","2","5">>) /\ ~Contains(h, <<"y","e","a","r">>)
    THEN "monthly"
    ELSE IF Contains(h, <<"2","0","2","5">>) \/ Contains(h, <<"e","s","t","i","m","a","t","e">>) THEN "2025_estimate"
    ELSE IF Contains(h, <<"2","0","2","4">>) THEN "2024_year"
    ELSE IF Contains(h, <<"i","n","f","l","a","t","i","o","n">>) /\ (Contains(h, <<"r","a","t","e">>) \/ Contains(h, <<"%">>))
    THEN "inflation_rate"
    ELSE IF /\ Contains(h, <<"i","n","f","l","a","t","i","o","n">>)
            /\ (Contains(h, <<"a","m","o","u","n","t">>) \/ Contains(h, <<"$">>) \/ Contains(h, <<"d","o","l","l","a","r">>))
    THEN "inflation_amount"
    ELSE "unmapped"

\* ('pt' in h or 'patient'): the non-empty literal 'patient' is itself the
\* second operand of `or`, and it is true
PtOrPatient(h) == Contains(h, <<"p","t">>) \/ TRUE

VariableColumn(h, i, n) ==
    IF /\ Contains(h, <<"d","e","s","c","r","i","p","t","i","o","n">>) \/ Contains(h, <<"i","t","e","m">>)
       /\ ~(Contains(h, <<"c","o","n","s","u","m","p","t","i","o","n">>) \/ Contains(h, <<"a","m","o","u","n","t">>) \/ Contains(h, <<"d","a","y">>))
    THEN "description"
    ELSE IF /\ Contains(h, <<"e","x","p","e","n","s","e">>) /\ Len(h) < 15
            /\ ~(\/ Contains(h, <<"c","o","n","s","u","m","p","t","i","o","n">>) \/ Contains(h, <<"c","o","n","s",".">>)
                 \/ Contains(h, <<"a","m","o","u","n","t">>) \/ Contains(h, <<"d","a","y">>))
    THEN "description"
    ELSE IF /\ Contains(h, <<"5","-","m","o","n","t","h">>) \/ Contains(h, <<"5","m">>)
            /\ Contains(h, <<"c","o","n","s","u","m","p","t","i","o","n">>) \/ Contains(h, <<"c","o","n","s">>)
    THEN "5_month_cons"
    ELSE IF /\ Contains(h, <<"5","-","m","o","n","t","h">>) \/ Contains(h, <<"5","m">>)
            /\ PtOrPatient(h) /\ Contains(h, <<"d","a","y">>)
    THEN "5_month_days"
    ELSE IF /\ Contains(h, <<"c","o","n","s","u","m","p","t","i","o","n">>) \/ Contains(h, <<"c","o","n","s">>)
            /\ Contains(h, <<"p","e","r">>) /\ PtOrPatient(h) /\ Contains(h, <<"d","a","y">>)
    THEN "cons_per_day"
    ELSE IF /\ Contains(h, <<"2","0","2","5">>) \/ Contains(h, <<"e","s","t","i","m","a","t","e","d">>) \/ Contains(h, <<"y","e","a","r","l","y">>)
            /\ PtOrPatient(h) /\ Contains(h, <<"d","a","y">>) /\ ~Contains(h, <<"a","m","o","u","n","t">>)
    THEN "yearly_days"
    ELSE IF (Contains(h, <<"y","e","a","r","l","y">>) \/ Contains(h, <<"p","e","r">>)) /\ Contains(h, <<"a","m","o","u","n","t">>)
    THEN "yearly_amount"
    ELSE IF Contains(h, <<"i","n","f","l","a","t","i","o","n">>) /\ (Contains(h, <<"r","a","t","e">>) \/ Contains(h, <<"%">>))
    THEN "inflation_rate"
    ELSE IF Contains(h, <<"i","n","f","l","a","t","i","o","n">>) /\ (Contains(h, <<"a","m","o","u","n","t">>) \/ Contains(h, <<"$">>))
    THEN "inflation_amount"
    ELSE IF Contains(h, <<"t","o","t","a","l">>) /\ (Contains(h, <<"a","m","o","u","n","t">>) \/ Contains(h, <<"2","0","2","5">>))
    THEN "total"
    ELSE "unmapped"

TotalColumn(h, i, n) ==
    IF Contains(h, <<"5","-","m","o","n","t","h">>) \/ (Contains(h, <<"5">>) /\ Contains(h, <<"m","o","n","t","h">>) /\ i < 3)
    THEN "5_month"
    ELSE IF Contains(h, <<"y","e","a","r","l","y">>) /\ (Contains(h, <<"c","o","n","s","u","m","p","t","i","o","n">>) \/ Contains(h, <<"t","o","t","a","l">>))
    THEN "yearly"
    ELSE IF Contains(h, <<"i","n","f","l","a","t","i","o","n">>) /\ (Contains(h, <<"r","a","t","e">>) \/ Contains(h, <<"%">>))
    THEN "inflation_rate"
    ELSE IF Contains(h, <<"i","n","f","l","a","t","i","o","n">>) /\ (Contains(h, <<"a","m","o","u","n","t">>) \/ Contains(h, <<"$">>))
    THEN "inflation_amount"
    ELSE IF \/ Contains(h, <<"t","o","t","a","l">>) /\ (Contains(h, <<"2","0","2","5">>) \/ Contains(h, <<"a","m","o","u","n","t">>))
            \/ i = n - 1 /\ Contains(h, <<"t","o","t","a","l">>)
    THEN "total"
    ELSE "unmapped"

\* the rule chain of a table kind applied to header h at 0-based index i of n
Column(kind, h, i, n) ==
    CASE kind = "fixed" -> FixedColumn(h, i, n)
      [] kind = "variable" -> VariableColumn(h, i, n)
      [] kind = "total" -> TotalColumn(h, i, n)

\* col_map after the loop over enumerate(headers): each key is bound to the
\* (0-based) index of the last header the rule chain gives that key
ColMap(headers, kind) ==
    LET n == Len(headers)
        keyOf(i) == Column(kind, headers[i], i - 1, n)
        keys == {keyOf(i) : i \in 1..n} \ {"unmapped"}
    IN  [key \in keys |->
            (CHOOSE i \in 1..n :
                 keyOf(i) = key /\ \A j \in (i + 1)..n : keyOf(j) # key) - 1]

(***************************************************************************)
(* The items and the row loop.                                             *)
(***************************************************************************)

\* the numeric fields of a fixed item and the col_map key each is read from
FixedItem ==
    ("5_month_consumption" :> "5_month")
    @@ ("monthly_consumption" :> "monthly")
    @@ ("2024_year_consumption" :> "2024_year")
    @@ ("inflation_rate" :> "inflation_rate")
    @@ ("inflation_amount" :> "inflation_amount")
    @@ ("estimated_2025_consumption" :> "2025_estimate")

\* the numeric fields of a variable item
VariableItem ==
    ("5_month_consumption" :> "5_month_cons")
    @@ ("5_month_patient_days" :> "5_month_days")
    @@ ("consumption_per_patient_day" :> "cons_per_day")
    @@ ("estimated_2025_yearly_pt_days" :> "yearly_days")
    @@ ("amount_per_yearly_pt_days" :> "yearly_amount")
    @@ ("inflation_rate" :> "inflation_rate")
    @@ ("inflation_amount" :> "inflation_amount")
    @@ ("total_amount" :> "total")

\* the fields of the total record
TotalRecord ==
    ("5_month_consumption" :> "5_month")
    @@ ("yearly_consumption" :> "yearly")
    @@ ("inflation_rate" :> "inflation_rate")
    @@ ("inflation_amount" :> "inflation_amount")
    @@ ("total_amount" :> "total")

\* the dict built from a row: the description (items only) and every
\* numeric field, parsed from the cell of its column or None
Item(kind, row, col_map) ==
    LET fields == CASE kind = "fixed" -> FixedItem
                    [] kind = "variable" -> VariableItem
                    [] kind = "total" -> TotalRecord
        keys == DOMAIN fields \cup (IF kind = "total" THEN {} ELSE {"description"})
    IN  [f \in keys |->
            IF f = "description" THEN Description(row, col_map)
            ELSE Field(row, col_map, fields[f])]

\* mutant: the row loop left at the first row that gives no item
ParseRows_Break(rows, col_map, kind) ==
    LET gives(row) == /\ Len(row) >= 3
                      /\ ~IndexError(row, col_map)
                      /\ Appended(Description(row, col_map))
        n == CHOOSE n \in 0..Len(rows) :
                 /\ \A i \in 1..n : gives(rows[i])
                 /\ n = Len(rows) \/ ~gives(rows[n + 1])
    IN  [i \in 1..n |-> Item(kind, rows[i], col_map)]

\* the loop over table[1:]: a row with fewer than 3 cells, a row that raises
\* IndexError and a row whose description is not to be appended give no
\* item; Item(kind, row, col_map) builds the item of a row
ParseRows(rows, col_map, kind) ==
    LET kept == SelectSeq(rows, LAMBDA row :
                    /\ Len(row) >= 3
                    /\ ~IndexError(row, col_map)
                    /\ Appended(Description(row, col_map)))
    IN  [i \in 1..Len(kept) |-> Item(kind, kept[i], col_map)]

(***************************************************************************)
(* DocumentParser._parse_fixed_table and _parse_variable_table             *)
(***************************************************************************)

_parse_fixed_table(table) ==
    IF Len(table) < 2 THEN <<>>
    ELSE ParseRows(Tail(table), ColMap(Headers(table), "fixed"), "fixed")

_parse_variable_table(table) ==
    IF Len(table) < 2 THEN <<>>
    ELSE ParseRows(Tail(table), ColMap(Headers(table), "variable"), "variable")

(***************************************************************************)
(* DocumentParser._parse_total_table                                       *)
(***************************************************************************)
\* {}
EmptyDict == [key \in {} |-> None]

\* the record of the first data row that has 3 cells and raises nothing
_parse_total_table(table) ==
    IF Len(table) < 2 THEN EmptyDict
    ELSE LET col_map == ColMap(Headers(table), "total")
             usable  == SelectSeq(Tail(table), LAMBDA row :
                            Len(row) >= 3 /\ ~IndexError(row, col_map))
         IN  IF usable = <<>> THEN EmptyDict ELSE Item("total", usable[1], col_map)

(***************************************************************************)
(* DocumentParser._extract_patient_days                                    *)
(***************************************************************************)
\* 'patient days' in str(cell).lower()
HasPatientDays(cell) == Contains(Lower(PyStr(cell)), <<"p","a","t","i","e","n","t"," ","d","a","y","s">>)

\* the cell after the first cell, in row order, that holds 'patient days'
\* and is not the last of its row
_extract_patient_days(table) ==
    LET cells == UNION {{<<r, c>> : c \in 1..(Len(table[r]) - 1)} : r \in 1..Len(table)}
        hits == {rc \in cells : HasPatientDays(table[rc[1]][rc[2]])}
        first == CHOOSE rc \in hits : \A o \in hits :
                     rc[1] < o[1] \/ (rc[1] = o[1] /\ rc[2] <= o[2])
    IN  IF hits = {} THEN None
        ELSE _parse_number(table[first[1]][first[2] + 1])

(***************************************************************************)
(* DocumentParser._parse_budget_tables                                     *)
(***************************************************************************)
is_fixed(headers) ==
    \/ AnyHeader(headers, <<"f","i","x","e","d">>)
    \/ AnyHeader(headers, <<"m","o","n","t","h","l","y">>) /\ AnyHeader(headers, <<"2","0","2","4">>)

is_variable(headers) ==
    \/ AnyHeader(headers, <<"v","a","r","i","a","b","l","e">>)
    \/ \E i \in 1..Len(headers) :
           Contains(headers[i], <<"p","t"," ","d","a","y">>) \/ Contains(headers[i], <<"p","a","t","i","e","n","t"," ","d","a","y">>)

is_total(table, headers) ==
    /\ AnyHeader(headers, <<"t","o","t","a","l">>)
    /\ \E i \in 1..Len(headers) :
           Contains(headers[i], <<"y","e","a","r","l","y">>) \/ Contains(headers[i], <<"i","n","f","l","a","t","i","o","n">>)
    /\ Len(table) <= 3

\* any('patient days' in str(cell).lower() for row in table for cell in row)
AnyPatientDays(table) ==
    \E r \in 1..Len(table) : \E c \in 1..Len(table[r]) : HasPatientDays(table[r][c])

EmptyResult ==
    [fixed_expenses |-> <<>>, variable_expenses |-> <<>>,
     total_expenses |-> EmptyDict, patient_days_initial |-> None]

\* mutant: the Variable test made before the Fixed test
TableStep_VariableFirst(res, table) ==
    IF Len(table) < 2 THEN res
    ELSE LET headers == Headers(table)
         IN  IF is_variable(headers)
             THEN [res EXCEPT !.variable_expenses = _parse_variable_table(table)]
             ELSE IF is_fixed(headers)
             THEN [res EXCEPT !.fixed_expenses = _parse_fixed_table(table)]
             ELSE IF is_total(table, headers)
             THEN [res EXCEPT !.total_expenses = _parse_total_table(table)]
             ELSE IF AnyPatientDays(table)
             THEN [res EXCEPT !.patient_days_initial = _extract_patient_days(table)]
             ELSE res

\* mutant: the items of a table added to those of the tables before it
TableStep_Merge(res, table) ==
    IF Len(table) < 2 THEN res
    ELSE LET headers == Headers(table)
         IN  IF is_fixed(headers)
             THEN [res EXCEPT !.fixed_expenses = @ \o _parse_fixed_table(table)]
             ELSE IF is_variable(headers)
             THEN [res EXCEPT !.variable_expenses = @ \o _parse_variable_table(table)]
             ELSE IF is_total(table, headers)
             THEN [res EXCEPT !.total_expenses = _parse_total_table(table) @@ @]
             ELSE IF AnyPatientDays(table)
             THEN [res EXCEPT !.patient_days_initial = _extract_patient_days(table)]
             ELSE res

\* one pass of the loop body: what a table does to the result
TableStep(res, table) ==
    IF Len(table) < 2 THEN res
    ELSE LET headers == Headers(table)
         IN  IF is_fixed(headers)
             THEN [res EXCEPT !.fixed_expenses = _parse_fixed_table(table)]
             ELSE IF is_variable(headers)
             THEN [res EXCEPT !.variable_expenses = _parse_variable_table(table)]
             ELSE IF is_total(table, headers)
             THEN [res EXCEPT !.total_expenses = _parse_total_table(table)]
             ELSE IF AnyPatientDays(table)
             THEN [res EXCEPT !.patient_days_initial = _extract_patient_days(table)]
             ELSE res

RECURSIVE TableLoop(_, _)
TableLoop(res, tables) ==
    IF tables = <<>> THEN res
    ELSE TableLoop(TableStep(res, Head(tables)), Tail(tables))

\* mutant: an except clause that does not name IndexError
Handled_NoIndexError(exc) == exc \in {"ValueError", "KeyError"}

\* except (ValueError, IndexError, KeyError): continue
Handled(exc) == exc \in {"ValueError", "IndexError", "KeyError"}

\* a row of the table raises, inside the try block of the parser the table
\* is handed to, an exception the except clause does not handle; the loop of
\* _parse_total_table ends at the first row that returns
Propagates(table, exc) ==
    /\ ~Handled(exc)
    /\ Len(table) >= 2
    /\ LET headers == Headers(table)
           kind    == IF is_fixed(headers) THEN "fixed"
                      ELSE IF is_variable(headers) THEN "variable"
                      ELSE IF is_total(table, headers) THEN "total"
                      ELSE "none"
           raises(r)  == Len(table[r]) >= 3 /\ IndexError(table[r], ColMap(headers, kind))
           returns(r) == Len(table[r]) >= 3 /\ ~IndexError(table[r], ColMap(headers, kind))
       IN  /\ kind # "none"
           /\ \E r \in 2..Len(table) :
                  /\ raises(r)
                  /\ kind = "total" => \A q \in 2..(r - 1) : ~returns(q)

\* the record after the loop over the tables, or the exception that left it
_parse_budget_tables(tables) ==
    IF \E t \in 1..Len(tables) : Propagates(tables[t], "IndexError")
    THEN Raise("IndexError")
    ELSE TableLoop(EmptyResult, tables)

(***************************************************************************)
(* The cell texts _parse_number is applied to.                             *)
(***************************************************************************)
Alphabet == {"0", "1", "5", ".", "=", "$", ",", " ", "%", "-", "n", "a", "x"}
Texts(n) == UNION {[1..len -> Alphabet] : len \in 0..n}
SpecialTexts ==
    {<<"n","o","n","e">>,
     <<"N","o","n","e">>,
     <<"N","O","N","E">>,
     <<"n","a","n">>,
     <<"N","a","N">>,
     <<"i","n","f">>,
     <<"-","i","n","f">>,
     <<"i","n","f","i","n","i","t","y">>,
     <<"1","e","5">>,
     <<"1","e","9","9","9">>,
     <<"1","e","-","9","9","9">>,
     <<"1","_","0">>,
     <<"5","0","0","/","5","="," ","1","0","0","$">>,
     <<"1","0","0"," ","x"," ","1","2","="," ","1",",","2","0","0","$">>,
     <<"x","=","1","=","5">>,
     <<"1","=","n","a","n">>,
     <<" ","5","\t">>,
     <<"=","n","o","n","e">>,
     <<"1","2",".","5","0","%">>,
     <<"1","=","2","=">>,
     <<"a","b","c">>,
     <<"1",".","2",".","3">>,
     <<"+","5">>,
     <<"5",".">>,
     <<".","5">>,
     <<"0",".","0">>,
     <<"$","-">>}
CellValues == {None} \cup {Str(s) : s \in Texts(MaxLen) \cup SpecialTexts}

InitNum ==
    /\ uploaded_file = Unset /\ st_error = Unset
    /\ provider = Unset /\ response = Unset
    /\ pc = "parse_number"
    /\ value \in CellValues
    /\ number = Unset
    /\ tables_data = Unset /\ result = Unset
    /\ tolerance = Unset /\ inflation_rate = Unset
    /\ actual = Unset /\ expected = Unset /\ comparison = Unset
    /\ extracted_data = Unset /\ report = Unset

ParseNumber ==
    /\ pc = "parse_number"
    /\ number' = _parse_number(value)
    /\ pc' = "returned"
    /\ UNCHANGED <<provider, response, uploaded_file, st_error, value, tables_data, result, tolerance, inflation_rate,
                   actual, expected, comparison, extracted_data, report>>

NextNum == ParseNumber
SpecNum == InitNum /\ [][NextNum]_vars

(***************************************************************************)
(* The raw tables _parse_budget_tables is applied to.                      *)
(***************************************************************************)

FixedStdTable ==
    <<<<Str(<<"D","e","s","c","r","i","p","t","i","o","n">>), Str(<<"5","-","M","o","n","t","h"," ","C","o","n","s","u","m","p","t","i","o","n">>), Str(<<"M","o","n","t","h","l","y"," ","C","o","n","s","u","m","p","t","i","o","n">>), Str(<<"2","0","2","4"," ","Y","e","a","r"," ","C","o","n","s","u","m","p","t","i","o","n">>), Str(<<"I","n","f","l","a","t","i","o","n"," ","R","a","t","e">>), Str(<<"I","n","f","l","a","t","i","o","n"," ","A","m","o","u","n","t">>), Str(<<"E","s","t","i","m","a","t","e","d"," ","2","0","2","5"," ","C","o","n","s","u","m","p","t","i","o","n">>)>>,
      <<Str(<<"O","f","f","i","c","e"," ","S","u","p","p","l","i","e","s">>), Str(<<"5","0","0">>), Str(<<"1","0","0">>), Str(<<"1","2","0","0">>), Str(<<"5">>), Str(<<"6","0">>), Str(<<"1","2","6","0">>)>>>>

FixedVariableTable ==
    <<<<Str(<<"F","i","x","e","d"," ","e","x","p","e","n","s","e">>), Str(<<"P","t"," ","D","a","y","s">>), Str(<<"M","o","n","t","h","l","y">>)>>,
      <<Str(<<"R","e","n","t">>), Str(<<"3","0">>), Str(<<"1","0","0">>)>>>>

VariableTable ==
    <<<<Str(<<"I","t","e","m">>), Str(<<"5","-","m","o","n","t","h"," ","C","o","n","s",".">>), Str(<<"5","m"," ","P","t"," ","D","a","y","s">>), Str(<<"T","o","t","a","l"," ","A","m","o","u","n","t">>)>>,
      <<Str(<<"G","l","o","v","e","s">>), Str(<<"2","0","0">>), Str(<<"5","0">>), Str(<<"1",",","0","0","0","$">>)>>>>

VariableTotalTable ==
    <<<<Str(<<"V","a","r","i","a","b","l","e"," ","i","t","e","m">>), Str(<<"Y","e","a","r","l","y"," ","t","o","t","a","l">>), Str(<<"I","n","f","l","a","t","i","o","n">>)>>,
      <<Str(<<"S","y","r","i","n","g","e","s">>), Str(<<"1","0">>), Str(<<"n","a","n">>)>>>>

TotalTable ==
    <<<<Str(<<"5","-","m","o","n","t","h">>), Str(<<"Y","e","a","r","l","y"," ","T","o","t","a","l">>), Str(<<"I","n","f","l","a","t","i","o","n"," ","R","a","t","e">>), Str(<<"I","n","f","l","a","t","i","o","n"," ","A","m","o","u","n","t">>), Str(<<"T","o","t","a","l"," ","2","0","2","5">>)>>,
      <<Str(<<"3","7","7","5","0">>), Str(<<"9","0","0","0","0">>), Str(<<"5">>), Str(<<"4","5","0","0">>), Str(<<"9","4","5","0","0">>)>>>>

TotalLongTable ==
    <<<<Str(<<"5","-","m","o","n","t","h">>), Str(<<"Y","e","a","r","l","y"," ","T","o","t","a","l">>), Str(<<"I","n","f","l","a","t","i","o","n"," ","R","a","t","e">>), Str(<<"I","n","f","l","a","t","i","o","n"," ","A","m","o","u","n","t">>), Str(<<"T","o","t","a","l"," ","2","0","2","5">>)>>,
      <<Str(<<"1">>), Str(<<"2">>), Str(<<"3">>), Str(<<"4">>), Str(<<"5">>)>>,
      <<Str(<<"6">>), Str(<<"7">>), Str(<<"8">>), Str(<<"9">>), Str(<<"1","0">>)>>,
      <<Str(<<"3","7","7","5","0">>), Str(<<"9","0","0","0","0">>), Str(<<"5">>), Str(<<"4","5","0","0">>), Str(<<"9","4","5","0","0">>)>>>>

PatientDaysTable ==
    <<<<Str(<<"D","e","p","a","r","t","m","e","n","t">>), Str(<<"I","C","U">>)>>,
      <<Str(<<"P","a","t","i","e","n","t"," ","d","a","y","s">>), Str(<<"1",",","5","0","0">>)>>>>

UnrecognizedTable ==
    <<<<Str(<<"N","a","m","e">>), Str(<<"D","a","t","e">>), Str(<<"S","i","g","n","a","t","u","r","e">>)>>,
      <<Str(<<"a">>), Str(<<"b">>), Str(<<"c">>)>>>>

FixedHeaderOnlyTable ==
    <<<<Str(<<"F","i","x","e","d"," ","E","x","p","e","n","s","e">>), Str(<<"5"," ","M","o","n","t","h">>), Str(<<"M","o","n","t","h","l","y">>)>>>>

EmptyTable ==
    <<>>

FixedTotalRowTable ==
    <<<<Str(<<"F","i","x","e","d"," ","E","x","p","e","n","s","e">>), Str(<<"5"," ","M","o","n","t","h">>), Str(<<"M","o","n","t","h","l","y">>)>>,
      <<Str(<<"R","e","n","t">>), Str(<<"5","0","0">>), Str(<<"1","0","0">>)>>,
      <<Str(<<"T","o","t","a","l">>), Str(<<"5","0","0">>), Str(<<"1","0","0">>)>>>>

FixedNoRateTable ==
    <<<<Str(<<"D","e","s","c","r","i","p","t","i","o","n">>), Str(<<"5","-","M","o","n","t","h"," ","C","o","n","s","u","m","p","t","i","o","n">>), Str(<<"M","o","n","t","h","l","y"," ","C","o","n","s","u","m","p","t","i","o","n">>), Str(<<"2","0","2","4"," ","Y","e","a","r"," ","C","o","n","s","u","m","p","t","i","o","n">>), Str(<<"I","n","f","l","a","t","i","o","n"," ","A","m","o","u","n","t">>), Str(<<"E","s","t","i","m","a","t","e","d"," ","2","0","2","5"," ","C","o","n","s","u","m","p","t","i","o","n">>)>>,
      <<Str(<<"R","e","n","t">>), Str(<<"5","0","0">>), Str(<<"1","0","0">>), Str(<<"1","2","0","0">>), Str(<<"6","0">>), Str(<<"1","2","6","0">>)>>>>

VariableHeaderRow ==
    <<Str(<<"V","a","r","i","a","b","l","e"," ","I","t","e","m">>), Str(<<"5","-","M","o","n","t","h"," ","C","o","n","s","u","m","p","t","i","o","n">>), Str(<<"5","-","M","o","n","t","h"," ","P","a","t","i","e","n","t"," ","D","a","y","s">>), Str(<<"C","o","n","s","u","m","p","t","i","o","n"," ","p","e","r"," ","P","a","t","i","e","n","t"," ","D","a","y">>), Str(<<"E","s","t","i","m","a","t","e","d"," ","2","0","2","5"," ","Y","e","a","r","l","y"," ","P","t"," ","D","a","y","s">>), Str(<<"A","m","o","u","n","t"," ","p","e","r"," ","Y","e","a","r","l","y"," ","P","t"," ","D","a","y","s">>), Str(<<"I","n","f","l","a","t","i","o","n"," ","R","a","t","e">>), Str(<<"I","n","f","l","a","t","i","o","n"," ","A","m","o","u","n","t">>), Str(<<"T","o","t","a","l"," ","A","m","o","u","n","t">>)>>

VariableStdTable ==
    <<VariableHeaderRow,
      <<Str(<<"G","l","o","v","e","s">>), Str(<<"1","0","0","0">>), Str(<<" ","5","0"," ">>), Str(<<"2","0">>), Str(<<"1","2","0">>), Str(<<"2","4","0","0">>), Str(<<"5">>), Str(<<"1","2","0">>), Str(<<"2","5","2","0">>)>>>>

VariableZeroDaysTable ==
    <<VariableHeaderRow,
      <<Str(<<"G","o","w","n","s">>), Str(<<"1","0","0","0">>), Str(<<"0">>), Str(<<"2","0">>), Str(<<"0">>), Str(<<"0">>), Str(<<"5">>), Str(<<"0">>), Str(<<"0">>)>>>>

\* the active sheets of the workbooks uploaded: cells are str, int, float or None
FixedSheet ==
    <<<<Str(<<"B","u","d","g","e","t"," ","o","f"," ","J","a","n","e"," ","D","o","e">>), None, None, None, None, None, None>>,
      <<Str(<<"F","i","x","e","d"," ","E","x","p","e","n","s","e">>), Str(<<"5"," ","M","o","n","t","h">>), Str(<<"M","o","n","t","h","l","y">>), IntCell(2024), Str(<<"I","n","f","l","a","t","i","o","n"," ","%">>), Str(<<"I","n","f","l","a","t","i","o","n"," ","$">>), IntCell(2025)>>,
      <<Str(<<"R","e","n","t">>), IntCell(500), Num(100, 1), IntCell(1200), IntCell(5), Num(120, 2), Num(1260, 1)>>,
      <<Str(<<"T","o","t","a","l">>), IntCell(500), IntCell(100), IntCell(1200), None, IntCell(60), IntCell(1260)>>>>

SheetPool ==
    {FixedSheet, Tail(FixedSheet), VariableStdTable, TotalTable, <<>>}

\* a seven-column header over a row of three cells and a row of seven
FixedShortRowTable ==
    <<FixedStdTable[1],
      <<Str(<<"R","e","n","t">>), Str(<<"5","0","0">>), Str(<<"1","0","0">>)>>,
      FixedStdTable[2]>>

\* a nine-column header over a row of four cells and a row of nine
VariableShortRowTable ==
    <<VariableHeaderRow,
      <<Str(<<"M","a","s","k","s">>), IntCell(10), Num(5, 2), None>>,
      VariableStdTable[2]>>

\* a five-column header over a row of three cells and a row of five
TotalShortRowTable ==
    <<TotalTable[1],
      <<IntCell(37750), IntCell(90000), IntCell(0)>>,
      TotalTable[2]>>

\* tables of a malformed document: cells that are numbers or None, header
\* rows without cells, rows without cells, rows shorter than the header
MalformedTables ==
    SheetPool
    \cup {FixedShortRowTable, VariableShortRowTable, TotalShortRowTable}
    \cup {<<<<>>, FixedStdTable[2]>>, <<<<>>, <<>>>>, <<FixedStdTable[1], <<>>>>,
          <<<<None, IntCell(0), Num(1, 2)>>, <<None, None, None>>>>,
          <<<<Str(<<"F","i","x","e","d">>), IntCell(5), NaN>>, <<IntCell(0), IntCell(-5), Inf(-1)>>, <<Num(-5, 4), Str(<<"x">>), None>>>>}

TablePool ==
    {FixedStdTable,
     FixedVariableTable,
     VariableTable,
     VariableTotalTable,
     TotalTable,
     TotalLongTable,
     PatientDaysTable,
     UnrecognizedTable,
     FixedHeaderOnlyTable,
     EmptyTable,
     FixedTotalRowTable}

FixedHeader ==
    <<Str(<<"F","i","x","e","d"," ","E","x","p","e","n","s","e">>), Str(<<"5"," ","M","o","n","t","h">>), Str(<<"M","o","n","t","h","l","y">>)>>

FixedItemLastHeader ==
    <<Str(<<"5"," ","M","o","n","t","h">>), Str(<<"M","o","n","t","h","l","y"," ","F","i","x","e","d">>), Str(<<"I","t","e","m">>)>>

VariableHeader ==
    <<Str(<<"I","t","e","m">>), Str(<<"5","-","m","o","n","t","h"," ","C","o","n","s",".">>), Str(<<"5","m"," ","P","t"," ","D","a","y","s">>)>>

\* a fixed header row whose last column no rule maps
FixedNotesHeader ==
    <<Str(<<"F","i","x","e","d"," ","E","x","p","e","n","s","e">>), Str(<<"5"," ","M","o","n","t","h">>), Str(<<"N","o","t","e","s">>)>>

HeaderPool == {FixedHeader, FixedItemLastHeader, VariableHeader, FixedNotesHeader}

RowPool ==
    {<<Str(<<"R","e","n","t">>), Str(<<"5","0","0">>), Str(<<"1","0","0">>)>>,
     <<Str(<<"T","o","t","a","l">>), Str(<<"1","5","0","0">>), Str(<<"3","0","0">>)>>,
     <<Str(<<"T","O","T","A","L">>), Str(<<"n","a","n">>), Str(<<"i","n","f">>)>>,
     <<Str(<<"S","u","m"," ","o","f"," ","p","a","r","t","s">>), Str(<<"1",",","2","0","0","$">>), Str(<<"n","/","a">>)>>,
     <<Str(<<"S","u","m","m","a","r","y">>), Str(<<"5","0","0","/","5","="," ","1","0","0","$">>), Str(<<>>)>>,
     <<Str(<<>>), Str(<<"5">>), Str(<<"5">>)>>,
     <<Str(<<"R","e","n","t">>), Str(<<"5","0","0">>)>>,
     <<Str(<<"t","o","t","a","l","_","c","o","s","t">>), Str(<<"1","e","9","9","9">>), Str(<<"-","i","n","f">>)>>,
     <<Str(<<"S","u","b","-","t","o","t","a","l",":">>), Str(<<"1">>), Str(<<"2">>)>>,
     <<Str(<<"5","0","0">>), Str(<<"1","0","0">>), Str(<<"T","o","t","a","l">>)>>,
     <<Str(<<"5">>), Str(<<"I","n","f","i","n","i","t","y">>), Str(<<"R","e","n","t">>)>>,
     <<None, Str(<<"1">>), Str(<<"2">>)>>,
     <<Str(<<"G","r","a","n","d"," "," "," ","t","o","t","a","l","*">>), Str(<<"5">>), None>>}

\* headers of the year columns of a fixed table
YearHeaders ==
    {<<"2","0","2","4"," ","Y","e","a","r">>, <<"E","s","t","i","m","a","t","e","d"," ","2","0","2","5"," ","(","f","r","o","m"," ","2","0","2","4"," ","b","a","s","e",")">>, <<"2","0","2","5">>, <<"E","s","t","i","m","a","t","e">>, <<"2","0","2","4">>,
     <<"E","s","t","i","m","a","t","e","d"," ","2","0","2","5"," ","E","x","p","e","n","s","e">>, <<"M","o","n","t","h","l","y"," ","e","s","t","i","m","a","t","e">>, <<"2","0","2","5"," ","(","1","2"," ","m","o","n","t","h","s",")">>}

\* fixed tables of a description column and two year columns, one data row
FixedYearTables ==
    {<<<<Str(<<"F","i","x","e","d"," ","i","t","e","m">>), Str(a), Str(b)>>, <<Str(<<"R","e","n","t">>), Str(<<"1","1">>), Str(<<"2","2">>)>>>> :
        a \in YearHeaders, b \in YearHeaders}

\* headers of the patient-day columns of a variable table
DayHeaders ==
    {<<"5","-","m","o","n","t","h"," ","d","a","y","s">>, <<"Y","e","a","r","l","y"," ","d","a","y","s">>, <<"5","m"," ","P","t"," ","D","a","y","s">>, <<"5","-","m","o","n","t","h"," ","p","a","t","i","e","n","t"," ","d","a","y","s">>,
     <<"C","o","n","s"," ","p","e","r"," ","d","a","y">>, <<"E","s","t","i","m","a","t","e","d"," ","2","0","2","5"," ","p","a","t","i","e","n","t"," ","d","a","y","s">>, <<"D","a","y","s">>}

\* variable tables of a description column and two day columns, one data row
VariableDayTables ==
    {<<<<Str(<<"V","a","r","i","a","b","l","e"," ","i","t","e","m">>), Str(a), Str(b)>>, <<Str(<<"G","l","o","v","e","s">>), Str(<<"1","1">>), Str(<<"2","2">>)>>>> :
        a \in DayHeaders, b \in DayHeaders}

\* headers of the five-month column of a total table
FiveMonthHeaders == {<<"5"," ","M","o","n","t","h">>, <<"5","-","M","o","n","t","h">>, <<"5"," ","M","o","n","t","h","s"," ","C","o","n","s","u","m","p","t","i","o","n">>}

\* seq with x put in before its element at (1-based) position at
InsertAt(seq, at, x) == SubSeq(seq, 1, at - 1) \o <<x>> \o SubSeq(seq, at, Len(seq))

\* total tables with the five-month column at each position, one data row
TotalFiveMonthTables ==
    {<<InsertAt(<<Str(<<"Y","e","a","r","l","y"," ","T","o","t","a","l">>), Str(<<"I","n","f","l","a","t","i","o","n"," ","R","a","t","e">>), Str(<<"I","n","f","l","a","t","i","o","n"," ","A","m","o","u","n","t">>), Str(<<"T","o","t","a","l"," ","2","0","2","5">>)>>, at, Str(h)),
       <<Str(<<"1">>), Str(<<"2">>), Str(<<"3">>), Str(<<"4">>), Str(<<"5">>)>>>> :
        at \in 1..5, h \in FiveMonthHeaders}

\* a fixed table whose only data row is a total row: it gives no item
FixedFooterOnlyTable == <<FixedTotalRowTable[1], FixedTotalRowTable[3]>>

\* a total table of other figures
TotalOtherTable ==
    <<TotalTable[1], <<Str(<<"1">>), Str(<<"2">>), Str(<<"3">>), Str(<<"4">>), Str(<<"5">>)>>>>

\* documents with several tables of one kind
SameKindDocuments ==
    {<<FixedStdTable, FixedFooterOnlyTable>>,
     <<FixedFooterOnlyTable, FixedStdTable>>,
     <<TotalTable, TotalOtherTable>>,
     <<TotalOtherTable, TotalTable>>,
     <<FixedStdTable, VariableTable, FixedFooterOnlyTable>>,
     <<VariableTable, TotalTable, VariableTotalTable, TotalOtherTable>>}

\* the sequences of 0..n (from 1: 1..n) elements of a set
Lists(S, from, n) == UNION {[1..len -> S] : len \in from..n}

\* the documents: up to MaxTables tables of the pool, or one table with a
\* header row of the pool and up to MaxRows data rows of the row pool, or a
\* malformed table alone or before a well-formed one, or one table that
\* tries the column rules of its kind, or several tables of one kind
Documents ==
    Lists(TablePool, 0, MaxTables)
    \cup {<<(<<h>> \o rows)>> : h \in HeaderPool, rows \in Lists(RowPool, 1, MaxRows)}
    \cup {<<table>> : table \in MalformedTables}
    \cup {<<table, FixedStdTable>> : table \in MalformedTables}
    \cup {<<table>> : table \in FixedYearTables}
    \cup {<<table>> : table \in VariableDayTables}
    \cup {<<table>> : table \in TotalFiveMonthTables}
    \cup SameKindDocuments

InitExtract ==
    /\ uploaded_file = Unset /\ st_error = Unset
    /\ provider = Unset /\ response = Unset
    /\ pc = "parse_budget_tables"
    /\ tables_data \in Documents
    /\ result = Unset
    /\ value = Unset /\ number = Unset
    /\ tolerance = Unset /\ inflation_rate = Unset
    /\ actual = Unset /\ expected = Unset /\ comparison = Unset
    /\ extracted_data = Unset /\ report = Unset

ParseBudgetTables ==
    /\ pc = "parse_budget_tables"
    /\ result' = _parse_budget_tables(tables_data)
    /\ pc' = "extracted"
    /\ UNCHANGED <<provider, response, uploaded_file, st_error, value, number, tables_data, tolerance, inflation_rate,
                   actual, expected, comparison, extracted_data, report>>

NextExtract == ParseBudgetTables
SpecExtract == InitExtract /\ [][NextExtract]_vars

(***************************************************************************)
(* float arithmetic.  Finite values are exact rationals; nan and the       *)
(* infinities follow IEEE 754 as Python exposes it.                        *)
(***************************************************************************)
IsNaN(x) == x.k = "nan"
IsInf(x) == x.k = "inf"
Sign(x) == IF IsInf(x) THEN x.sign ELSE IF x.n > 0 THEN 1 ELSE IF x.n < 0 THEN -1 ELSE 0

\* -x
FNeg(x) ==
    IF IsNaN(x) THEN NaN
    ELSE IF IsInf(x) THEN Inf(-x.sign)
    ELSE Num(-x.n, x.d)

\* x + y
FAdd(x, y) ==
    IF IsNaN(x) \/ IsNaN(y) THEN NaN
    ELSE IF IsInf(x) /\ IsInf(y) THEN (IF x.sign = y.sign THEN x ELSE NaN)
    ELSE IF IsInf(x) THEN x
    ELSE IF IsInf(y) THEN y
    ELSE Num(x.n * y.d + y.n * x.d, x.d * y.d)

\* x - y
FSub(x, y) == FAdd(x, FNeg(y))

\* x * y
FMul(x, y) ==
    IF IsNaN(x) \/ IsNaN(y) THEN NaN
    ELSE IF IsInf(x) \/ IsInf(y)
         THEN (IF Sign(x) * Sign(y) = 0 THEN NaN ELSE Inf(Sign(x) * Sign(y)))
    ELSE Num(x.n * y.n, x.d * y.d)

\* x / y: division by zero raises
FDiv(x, y) ==
    IF IsNum(y) /\ y.n = 0 THEN Raise("ZeroDivisionError")
    ELSE IF IsNaN(x) \/ IsNaN(y) THEN NaN
    ELSE IF IsInf(x) THEN (IF IsInf(y) THEN NaN ELSE Inf(Sign(x) * Sign(y)))
    ELSE IF IsInf(y) THEN Num(0, 1)
    ELSE Num(x.n * y.d, x.d * y.n)

\* abs(x)
FAbs(x) ==
    IF IsNaN(x) THEN NaN
    ELSE IF IsInf(x) THEN Inf(1)
    ELSE Num(Abs(x.n), x.d)

\* x <= y: every comparison with nan is false
FLe(x, y) ==
    IF IsNaN(x) \/ IsNaN(y) THEN FALSE
    ELSE IF IsInf(x) THEN (x.sign = -1 \/ y = x)
    ELSE IF IsInf(y) THEN y.sign = 1
    ELSE x.n * y.d <= y.n * x.d

\* bool(x) of a number or None: None and zero are false, nan is true
TruthyNumber(x) == x # None /\ ~(IsNum(x) /\ x.n = 0)

\* n/d (d > 0) rounded to the nearest integer, ties to the even one
RoundHalfEven(n, d) ==
    LET q == n \div d
        r == n % d
    IN  IF 2 * r < d THEN q
        ELSE IF 2 * r > d THEN q + 1
        ELSE IF q % 2 = 0 THEN q ELSE q + 1

\* round(x, 2)
Round2(x) == IF IsNum(x) THEN Num(RoundHalfEven(100 * x.n, x.d), 100) ELSE x

\* f"{x:.2f}" of x >= 0, nan or inf
Format2f(x) ==
    IF IsNaN(x) THEN <<"n","a","n">>
    ELSE IF IsInf(x) THEN (IF x.sign = 1 THEN <<"i","n","f">> ELSE <<"-","i","n","f">>)
    ELSE LET cents == RoundHalfEven(100 * x.n, x.d)
         IN  IntStr(cents \div 100) \o <<".">>
                 \o <<DigitSeq[((cents \div 10) % 10) + 1], DigitSeq[(cents % 10) + 1]>>

(***************************************************************************)
(* BudgetValidator._compare_values                                         *)
(***************************************************************************)
\* the emoji of the status texts, one element per code point
CheckMark == "U+2705"
CrossMark == "U+274C"
WarningSign == <<"U+26A0", "U+FE0F">>

\* mutant: a strict bound
WithinTolerance_Strict(difference, tol) == FLe(difference, tol) /\ difference # tol

\* difference <= self.tolerance
WithinTolerance(difference, tol) == FLe(difference, tol)

_compare_values(self, act, exp) ==
    IF act = None
    THEN [correct |-> FALSE,
          status |-> WarningSign \o <<" ","M","i","s","s","i","n","g"," ","v","a","l","u","e">>,
          expected |-> Round2(exp),
          actual |-> None]
    ELSE LET difference == FAbs(FSub(act, exp))
             is_correct == WithinTolerance(difference, self.tolerance)
         IN  [correct |-> is_correct,
              status |-> IF is_correct THEN <<CheckMark>> \o <<" ","C","o","r","r","e","c","t">>
                         ELSE <<CrossMark>> \o <<" ","I","n","c","o","r","r","e","c","t"," ","(","o","f","f"," ","b","y"," ">>
                                  \o Format2f(difference) \o <<")">>,
              expected |-> Round2(exp),
              actual |-> Round2(act)]

(***************************************************************************)
(* BudgetValidator: the item validators, the total validator and validate. *)
(* self is the record [inflation_rate, tolerance] of __init__.             *)
(***************************************************************************)
\* dict.get(key, default)
Get(d, key, default) == IF key \in DOMAIN d THEN d[key] ELSE default

Hundred == Num(100, 1)

\* validations[key] = result, when the check applies
Entry(applies, key, comparison_result) ==
    IF applies THEN key :> comparison_result ELSE EmptyDict

\* rate / 100: a rate of None raises
RateFraction(rate) == IF rate = None THEN Raise("TypeError") ELSE FDiv(rate, Hundred)

\* expected_inflation = base * (inflation_rate / 100)
ExpectedInflation(base, rate) == FMul(base, RateFraction(rate))

\* item.get('inflation_rate', self.inflation_rate)
ItemRate(item, self) == Get(item, "inflation_rate", self.inflation_rate)

\* mutant: the yearly figure expected from the recomputed monthly figure
\* (five_month / 5) where there is one
_validate_fixed_item_Recomputed(self, item) ==
    LET five_month == Get(item, "5_month_consumption", None)
        monthly == Get(item, "monthly_consumption", None)
        year_2024 == Get(item, "2024_year_consumption", None)
        rate == ItemRate(item, self)
        inflation_amount == Get(item, "inflation_amount", None)
        estimated_2025 == Get(item, "estimated_2025_consumption", None)
        check_monthly == five_month # None /\ monthly # None
        check_year == monthly # None /\ year_2024 # None
        check_inflation == year_2024 # None /\ inflation_amount # None
        check_2025 == check_inflation /\ estimated_2025 # None
    IN  IF check_inflation /\ rate = None THEN Raise("TypeError")
        ELSE [description |-> Get(item, "description", <<"U","n","k","n","o","w","n">>),
              validations |->
                  Entry(check_monthly, "monthly_consumption",
                        _compare_values(self, monthly, FDiv(five_month, Num(5, 1))))
                  @@ Entry(check_year, "2024_year_consumption",
                        _compare_values(self, year_2024,
                            FMul(IF five_month # None THEN FDiv(five_month, Num(5, 1)) ELSE monthly,
                                 Num(12, 1))))
                  @@ Entry(check_inflation, "inflation_amount",
                        _compare_values(self, inflation_amount,
                                        ExpectedInflation(year_2024, rate)))
                  @@ Entry(check_2025, "estimated_2025_consumption",
                        _compare_values(self, estimated_2025,
                                        FAdd(year_2024, inflation_amount)))]

_validate_fixed_item(self, item) ==
    LET five_month == Get(item, "5_month_consumption", None)
        monthly == Get(item, "monthly_consumption", None)
        year_2024 == Get(item, "2024_year_consumption", None)
        rate == ItemRate(item, self)
        inflation_amount == Get(item, "inflation_amount", None)
        estimated_2025 == Get(item, "estimated_2025_consumption", None)
        check_monthly == five_month # None /\ monthly # None
        check_year == monthly # None /\ year_2024 # None
        check_inflation == year_2024 # None /\ inflation_amount # None
        check_2025 == check_inflation /\ estimated_2025 # None
    IN  IF check_inflation /\ rate = None THEN Raise("TypeError")
        ELSE [description |-> Get(item, "description", <<"U","n","k","n","o","w","n">>),
              validations |->
                  Entry(check_monthly, "monthly_consumption",
                        _compare_values(self, monthly, FDiv(five_month, Num(5, 1))))
                  @@ Entry(check_year, "2024_year_consumption",
                        _compare_values(self, year_2024, FMul(monthly, Num(12, 1))))
                  @@ Entry(check_inflation, "inflation_amount",
                        _compare_values(self, inflation_amount,
                                        ExpectedInflation(year_2024, rate)))
                  @@ Entry(check_2025, "estimated_2025_consumption",
                        _compare_values(self, estimated_2025,
                                        FAdd(year_2024, inflation_amount)))]

\* mutant: the yearly-days check does not ask for the submitted value
CheckYearlyDays_NoGuard(five_month_days, yearly_days) == five_month_days # None

\* if five_month_days is not None and yearly_days is not None
CheckYearlyDays(five_month_days, yearly_days) ==
    five_month_days # None /\ yearly_days # None

\* mutant: the yearly amount expected from the recomputed consumption per
\* patient day (five_month / five_month_days) where there is one
_validate_variable_item_Recomputed(self, item) ==
    LET five_month == Get(item, "5_month_consumption", None)
        five_month_days == Get(item, "5_month_patient_days", None)
        per_day == Get(item, "consumption_per_patient_day", None)
        yearly_days == Get(item, "estimated_2025_yearly_pt_days", None)
        amount_yearly == Get(item, "amount_per_yearly_pt_days", None)
        rate == ItemRate(item, self)
        inflation_amount == Get(item, "inflation_amount", None)
        total == Get(item, "total_amount", None)
        check_yearly_days == CheckYearlyDays(five_month_days, yearly_days)
        check_per_day == five_month # None /\ five_month_days # None /\ per_day # None
        check_amount == per_day # None /\ yearly_days # None /\ amount_yearly # None
        check_inflation == amount_yearly # None /\ inflation_amount # None
        check_total == check_inflation /\ total # None
    IN  IF check_per_day /\ Raised(FDiv(five_month, five_month_days))
        THEN FDiv(five_month, five_month_days)
        ELSE IF check_inflation /\ rate = None THEN Raise("TypeError")
        ELSE [description |-> Get(item, "description", <<"U","n","k","n","o","w","n">>),
              validations |->
                  Entry(check_yearly_days, "estimated_2025_yearly_pt_days",
                        _compare_values(self, yearly_days,
                            FMul(FDiv(five_month_days, Num(5, 1)), Num(12, 1))))
                  @@ Entry(check_per_day, "consumption_per_patient_day",
                        _compare_values(self, per_day, FDiv(five_month, five_month_days)))
                  @@ Entry(check_amount, "amount_per_yearly_pt_days",
                        _compare_values(self, amount_yearly,
                            FMul(IF check_per_day THEN FDiv(five_month, five_month_days) ELSE per_day,
                                 yearly_days)))
                  @@ Entry(check_inflation, "inflation_amount",
                        _compare_values(self, inflation_amount,
                                        ExpectedInflation(amount_yearly, rate)))
                  @@ Entry(check_total, "total_amount",
                        _compare_values(self, total,
                                        FAdd(amount_yearly, inflation_amount)))]

_validate_variable_item(self, item) ==
    LET five_month == Get(item, "5_month_consumption", None)
        five_month_days == Get(item, "5_month_patient_days", None)
        per_day == Get(item, "consumption_per_patient_day", None)
        yearly_days == Get(item, "estimated_2025_yearly_pt_days", None)
        amount_yearly == Get(item, "amount_per_yearly_pt_days", None)
        rate == ItemRate(item, self)
        inflation_amount == Get(item, "inflation_amount", None)
        total == Get(item, "total_amount", None)
        check_yearly_days == CheckYearlyDays(five_month_days, yearly_days)
        check_per_day == five_month # None /\ five_month_days # None /\ per_day # None
        check_amount == per_day # None /\ yearly_days # None /\ amount_yearly # None
        check_inflation == amount_yearly # None /\ inflation_amount # None
        check_total == check_inflation /\ total # None
    IN  IF check_per_day /\ Raised(FDiv(five_month, five_month_days))
        THEN FDiv(five_month, five_month_days)
        ELSE IF check_inflation /\ rate = None THEN Raise("TypeError")
        ELSE [description |-> Get(item, "description", <<"U","n","k","n","o","w","n">>),
              validations |->
                  Entry(check_yearly_days, "estimated_2025_yearly_pt_days",
                        _compare_values(self, yearly_days,
                            FMul(FDiv(five_month_days, Num(5, 1)), Num(12, 1))))
                  @@ Entry(check_per_day, "consumption_per_patient_day",
                        _compare_values(self, per_day, FDiv(five_month, five_month_days)))
                  @@ Entry(check_amount, "amount_per_yearly_pt_days",
                        _compare_values(self, amount_yearly, FMul(per_day, yearly_days)))
                  @@ Entry(check_inflation, "inflation_amount",
                        _compare_values(self, inflation_amount,
                                        ExpectedInflation(amount_yearly, rate)))
                  @@ Entry(check_total, "total_amount",
                        _compare_values(self, total,
                                        FAdd(amount_yearly, inflation_amount)))]

\* mutant: the sum ends at the first item whose addend is absent
RECURSIVE SumField_StopAtAbsent(_, _, _)
SumField_StopAtAbsent(acc, items, key) ==
    IF items = <<>> THEN acc
    ELSE IF TruthyNumber(Get(Head(items), key, None))
    THEN SumField_StopAtAbsent(FAdd(acc, Head(items)[key]), Tail(items), key)
    ELSE acc

\* expected += item[key] for the items whose item.get(key) is truthy
RECURSIVE SumField(_, _, _)
SumField(acc, items, key) ==
    IF items = <<>> THEN acc
    ELSE SumField(IF TruthyNumber(Get(Head(items), key, None))
                  THEN FAdd(acc, Head(items)[key]) ELSE acc,
                  Tail(items), key)

\* mutant: the inflation amount and the total expected from the yearly
\* figure recomputed from the items
_validate_total_Recomputed(self, total_data, fixed_items, variable_items) ==
    LET five_month == Get(total_data, "5_month_consumption", None)
        yearly == Get(total_data, "yearly_consumption", None)
        rate == ItemRate(total_data, self)
        inflation_amount == Get(total_data, "inflation_amount", None)
        total == Get(total_data, "total_amount", None)
        expected_five_month ==
            SumField(SumField(Num(0, 1), fixed_items, "5_month_consumption"),
                     variable_items, "5_month_consumption")
        expected_yearly ==
            SumField(SumField(Num(0, 1), fixed_items, "2024_year_consumption"),
                     variable_items, "amount_per_yearly_pt_days")
        check_inflation == yearly # None /\ inflation_amount # None
        check_total == check_inflation /\ total # None
    IN  IF check_inflation /\ rate = None THEN Raise("TypeError")
        ELSE Entry(five_month # None, "5_month_consumption",
                   _compare_values(self, five_month, expected_five_month))
             @@ Entry(yearly # None, "yearly_consumption",
                   _compare_values(self, yearly, expected_yearly))
             @@ Entry(check_inflation, "inflation_amount",
                   _compare_values(self, inflation_amount,
                                   ExpectedInflation(expected_yearly, rate)))
             @@ Entry(check_total, "total_amount",
                   _compare_values(self, total, FAdd(expected_yearly, inflation_amount)))

_validate_total(self, total_data, fixed_items, variable_items) ==
    LET five_month == Get(total_data, "5_month_consumption", None)
        yearly == Get(total_data, "yearly_consumption", None)
        rate == ItemRate(total_data, self)
        inflation_amount == Get(total_data, "inflation_amount", None)
        total == Get(total_data, "total_amount", None)
        expected_five_month ==
            SumField(SumField(Num(0, 1), fixed_items, "5_month_consumption"),
                     variable_items, "5_month_consumption")
        expected_yearly ==
            SumField(SumField(Num(0, 1), fixed_items, "2024_year_consumption"),
                     variable_items, "amount_per_yearly_pt_days")
        check_inflation == yearly # None /\ inflation_amount # None
        check_total == check_inflation /\ total # None
    IN  IF check_inflation /\ rate = None THEN Raise("TypeError")
        ELSE Entry(five_month # None, "5_month_consumption",
                   _compare_values(self, five_month, expected_five_month))
             @@ Entry(yearly # None, "yearly_consumption",
                   _compare_values(self, yearly, expected_yearly))
             @@ Entry(check_inflation, "inflation_amount",
                   _compare_values(self, inflation_amount, ExpectedInflation(yearly, rate)))
             @@ Entry(check_total, "total_amount",
                   _compare_values(self, total, FAdd(yearly, inflation_amount)))

\* report['total_calculations'] += 1 and, when validation['correct'],
\* report['correct_count'] += 1, for every validation of a validations dict
Tally(rep, validations) ==
    [rep EXCEPT
        !.total_calculations = @ + Cardinality(DOMAIN validations),
        !.correct_count =
            @ + Cardinality({key \in DOMAIN validations : validations[key].correct})]

\* mutant: the total section is not counted
TallyTotal_Skipped(rep, total_result) == rep

\* the counting loop over total_result.values()
TallyTotal(rep, total_result) == Tally(rep, total_result)

\* mutant: the division without its guard
Percentage_NoGuard(correct_count, total_calculations) ==
    LET ratio == FDiv(Int2Num(correct_count), Int2Num(total_calculations))
    IN  IF Raised(ratio) THEN ratio ELSE FMul(ratio, Hundred)

\* the percentage, left at 0.0 when nothing was validated
Percentage(correct_count, total_calculations) ==
    IF total_calculations > 0
    THEN FMul(FDiv(Int2Num(correct_count), Int2Num(total_calculations)), Hundred)
    ELSE Num(0, 1)

\* the loop over the fixed items: validate, append, count; a raise ends it
RECURSIVE FixedLoop(_, _, _)
FixedLoop(self, rep, items) ==
    IF items = <<>> THEN rep
    ELSE LET item_result == _validate_fixed_item(self, Head(items))
         IN  IF Raised(item_result) THEN item_result
             ELSE FixedLoop(self,
                      Tally([rep EXCEPT !.fixed_expenses_results = Append(@, item_result)],
                            item_result.validations),
                      Tail(items))

\* the loop over the variable items
RECURSIVE VariableLoop(_, _, _)
VariableLoop(self, rep, items) ==
    IF items = <<>> THEN rep
    ELSE LET item_result == _validate_variable_item(self, Head(items))
         IN  IF Raised(item_result) THEN item_result
             ELSE VariableLoop(self,
                      Tally([rep EXCEPT !.variable_expenses_results = Append(@, item_result)],
                            item_result.validations),
                      Tail(items))

EmptyReport(data) ==
    [student_name |-> Get(data, "student_name", <<"U","n","k","n","o","w","n">>),
     department |-> Get(data, "department", <<"U","n","k","n","o","w","n">>),
     fixed_expenses_results |-> <<>>,
     variable_expenses_results |-> <<>>,
     total_expenses_results |-> EmptyDict,
     correct_count |-> 0,
     total_calculations |-> 0,
     percentage |-> Num(0, 1)]

\* validate: the report, or the exception an item or the total raised
validate(self, data) ==
    LET fixed_items == Get(data, "fixed_expenses", <<>>)
        variable_items == Get(data, "variable_expenses", <<>>)
        after_fixed == FixedLoop(self, EmptyReport(data), fixed_items)
        after_variable == VariableLoop(self, after_fixed, variable_items)
        total_result == _validate_total(self, Get(data, "total_expenses", EmptyDict),
                                        fixed_items, variable_items)
        counted == TallyTotal([after_variable EXCEPT !.total_expenses_results = total_result],
                              total_result)
        percentage == Percentage(counted.correct_count, counted.total_calculations)
    IN  IF Raised(after_fixed) THEN after_fixed
        ELSE IF Raised(after_variable) THEN after_variable
        ELSE IF Raised(total_result) THEN total_result
        ELSE IF Raised(percentage) THEN percentage
        ELSE [counted EXCEPT !.percentage = percentage]

(***************************************************************************)
(* The values _compare_values is applied to.                               *)
(***************************************************************************)
\* submitted and recomputed amounts: around 100 in steps down to 1/16 (binary
\* fractions, which a float holds exactly), zero, a negative amount, nan and
\* the infinities
Amounts ==
    {Num(0, 1), Num(100, 1), Num(101, 1), Num(201, 2), Num(199, 2), Num(401, 4),
     Num(801, 8), Num(1601, 16), Num(105, 1), Num(106, 1), Num(-100, 1),
     NaN, Inf(1), Inf(-1)}

\* the tolerance input of the app runs from 0.0 to 5.0
Tolerances == {Num(0, 1), Num(1, 2), Num(1, 1), Num(5, 1)}

\* the validators constructed: the defaults of the app's inputs, and a
\* doubled rate with no tolerance
Configurations ==
    {[inflation_rate |-> Num(5, 1), tolerance |-> Num(1, 2)],
     [inflation_rate |-> Num(10, 1), tolerance |-> Num(0, 1)]}

InitCompare ==
    /\ uploaded_file = Unset /\ st_error = Unset
    /\ provider = Unset /\ response = Unset
    /\ pc = "compare_values"
    /\ actual \in Amounts \cup {None}
    /\ expected \in Amounts
    /\ tolerance \in Tolerances
    /\ inflation_rate = Num(5, 1)
    /\ comparison = Unset
    /\ value = Unset /\ number = Unset
    /\ tables_data = Unset /\ result = Unset
    /\ extracted_data = Unset /\ report = Unset

CompareValues ==
    /\ pc = "compare_values"
    /\ comparison' = _compare_values([inflation_rate |-> inflation_rate,
                                      tolerance |-> tolerance], actual, expected)
    /\ pc' = "compared"
    /\ UNCHANGED <<provider, response, uploaded_file, st_error, value, number, tables_data, result, tolerance, inflation_rate,
                   actual, expected, extracted_data, report>>

NextCompare == CompareValues
SpecCompare == InitCompare /\ [][NextCompare]_vars

(***************************************************************************)
(* The canonical records validate is applied to.                           *)
(***************************************************************************)
\* most items of a section in the records built from the small pools
MaxItems == 2

\* dict[key] = v, or no such key when v is Unset
Key(key, v) == IF v = Unset THEN EmptyDict ELSE key :> v

FixedRecord(desc, five_month, monthly, year_2024, rate, inflation_amount, estimate) ==
    Key("description", desc)
    @@ Key("5_month_consumption", five_month)
    @@ Key("monthly_consumption", monthly)
    @@ Key("2024_year_consumption", year_2024)
    @@ Key("inflation_rate", rate)
    @@ Key("inflation_amount", inflation_amount)
    @@ Key("estimated_2025_consumption", estimate)

VariableRecord(desc, five_month, days, per_day, yearly_days, amount, rate, inflation_amount, total) ==
    Key("description", desc)
    @@ Key("5_month_consumption", five_month)
    @@ Key("5_month_patient_days", days)
    @@ Key("consumption_per_patient_day", per_day)
    @@ Key("estimated_2025_yearly_pt_days", yearly_days)
    @@ Key("amount_per_yearly_pt_days", amount)
    @@ Key("inflation_rate", rate)
    @@ Key("inflation_amount", inflation_amount)
    @@ Key("total_amount", total)

TotalData(five_month, yearly, rate, inflation_amount, total) ==
    Key("5_month_consumption", five_month)
    @@ Key("yearly_consumption", yearly)
    @@ Key("inflation_rate", rate)
    @@ Key("inflation_amount", inflation_amount)
    @@ Key("total_amount", total)

CanonicalRecord(fixed, variable, total) ==
    ("fixed_expenses" :> fixed) @@ ("variable_expenses" :> variable)
    @@ ("total_expenses" :> total) @@ ("patient_days" :> None)

\* every fixed item whose fields are absent, right or wrong
OneFixedItems ==
    {FixedRecord(<<"R","e","n","t">>, five_month, monthly, year_2024, rate, inflation_amount, estimate) :
        five_month \in {None, Num(500, 1), Num(0, 1)},
        monthly \in {None, Num(100, 1), Num(101, 1), Num(201, 2)},
        year_2024 \in {None, Num(1200, 1), Num(1300, 1)},
        rate \in {Unset, None, Num(5, 1), Num(10, 1)},
        inflation_amount \in {None, Num(60, 1), Num(120, 1)},
        estimate \in {None, Num(1260, 1), Num(1500, 1)}}

\* every variable item whose fields are absent, right or wrong
OneVariableItems ==
    {VariableRecord(<<"G","l","o","v","e","s">>, five_month, days, per_day, yearly_days, amount, rate,
                    inflation_amount, total) :
        five_month \in {None, Num(1000, 1)},
        days \in {None, Num(50, 1), Num(0, 1)},
        per_day \in {None, Num(20, 1), Num(21, 1)},
        yearly_days \in {None, Num(120, 1)},
        amount \in {None, Num(2400, 1)},
        rate \in {Unset, None, Num(5, 1)},
        inflation_amount \in {None, Num(120, 1), Num(130, 1)},
        total \in {None, Num(2520, 1)}}

\* the fixed items of the longer records: a right one, one with the 5-month
\* figure alone, one with a wrong monthly figure and no rate key, and one with
\* nan and no description
FixedPool ==
    {FixedRecord(<<"R","e","n","t">>, Num(500, 1), Num(100, 1), Num(1200, 1), Num(5, 1),
                 Num(60, 1), Num(1260, 1)),
     FixedRecord(<<"P","o","w","e","r">>, Num(250, 1), None, None, None, None, None),
     FixedRecord(<<"W","a","t","e","r">>, Num(500, 1), Num(101, 1), Num(1200, 1), Unset,
                 Num(60, 1), Num(1261, 1)),
     FixedRecord(Unset, NaN, Num(0, 1), Num(0, 1), Num(5, 1), Num(0, 1), Unset)}

\* the variable items of the longer records
VariablePool ==
    {VariableRecord(<<"G","l","o","v","e","s">>, Num(1000, 1), Num(50, 1), Num(20, 1), Num(120, 1),
                    Num(2400, 1), Num(5, 1), Num(120, 1), Num(2520, 1)),
     VariableRecord(<<"M","a","s","k","s">>, Num(300, 1), None, None, None, None, None, None, None),
     VariableRecord(<<"G","o","w","n","s">>, Num(1000, 1), Num(0, 1), None, Num(0, 1),
                    Num(2400, 1), Unset, Num(125, 1), Num(2525, 1))}

\* the total records: none, all absent, the sums of the right items, the
\* 5-month sum alone, and one whose rate is absent
TotalPool ==
    {EmptyDict,
     TotalData(None, None, None, None, None),
     TotalData(Num(1500, 1), Num(3600, 1), Num(5, 1), Num(180, 1), Num(3780, 1)),
     TotalData(Num(750, 1), None, Unset, Num(180, 1), Num(3780, 1)),
     TotalData(Num(500, 1), Num(1200, 1), None, Num(60, 1), None)}

\* the record of a budget whose five-month figures sum to 37750, and the
\* same with the five-month figure of one fixed item, of the variable item,
\* or the yearly figure of a fixed item absent
ExampleRecords ==
    {CanonicalRecord(<<FixedRecord(<<"R","e","n","t">>, Num(20000, 1), Num(4000, 1), Num(48000, 1), Num(5, 1), Num(2400, 1), Num(50400, 1)),
                       FixedRecord(<<"P","o","w","e","r">>, power, Num(2000, 1), year, Num(5, 1), Num(1200, 1), Num(25200, 1))>>,
                     <<VariableRecord(<<"G","l","o","v","e","s">>, gloves, Num(50, 1), Num(155, 1), Num(120, 1), Num(18600, 1), Num(5, 1), Num(930, 1), Num(19530, 1))>>,
                     TotalData(Num(37750, 1), Num(90600, 1), Num(5, 1), Num(4530, 1), Num(95130, 1))) :
         power \in {Num(10000, 1), None}, year \in {Num(24000, 1), None},
         gloves \in {Num(7750, 1), None, Num(31001, 4)}}

\* the records: one item of the full pools, or up to MaxItems items per section
\* of the small pools with a total record; a record without keys and one with
\* the submitter's name; the records of the 37750 budget
CanonicalRecords ==
    {CanonicalRecord(<<item>>, <<>>, EmptyDict) : item \in OneFixedItems}
    \cup {CanonicalRecord(<<>>, <<item>>, EmptyDict) : item \in OneVariableItems}
    \cup {CanonicalRecord(fixed, variable, total) :
              fixed \in Lists(FixedPool, 0, MaxItems),
              variable \in Lists(VariablePool, 0, MaxItems),
              total \in TotalPool}
    \cup {EmptyDict, ("student_name" :> <<"A","n","n">>) @@ ("department" :> <<"I","C","U">>)}
    \cup ExampleRecords

InitValidate ==
    /\ uploaded_file = Unset /\ st_error = Unset
    /\ provider = Unset /\ response = Unset
    /\ pc = "validate"
    /\ extracted_data \in CanonicalRecords
    /\ \E self \in Configurations :
           tolerance = self.tolerance /\ inflation_rate = self.inflation_rate
    /\ report = Unset
    /\ value = Unset /\ number = Unset
    /\ tables_data = Unset /\ result = Unset
    /\ actual = Unset /\ expected = Unset /\ comparison = Unset

\* mutant: the sections read with setdefault in place of get
RecordAfterValidate_Setdefault(data) ==
    data @@ [fixed_expenses |-> <<>>, variable_expenses |-> <<>>, total_expenses |-> EmptyDict]

\* the record after validate has run on it: validate and the three
\* _validate_ methods read the record with get and subscripts, and every
\* assignment, append and += of theirs is to report, validations or a local
RecordAfterValidate(data) == data

Validate ==
    /\ pc = "validate"
    /\ report' = validate([inflation_rate |-> inflation_rate, tolerance |-> tolerance],
                          extracted_data)
    /\ extracted_data' = RecordAfterValidate(extracted_data)
    /\ pc' = "validated"
    /\ UNCHANGED <<provider, response, uploaded_file, st_error, value, number, tables_data, result, tolerance, inflation_rate,
                   actual, expected, comparison>>

NextValidate == Validate
SpecValidate == InitValidate /\ [][NextValidate]_vars

\* validate called on a record, and called once more on the record and
\* with the validator the first call left
ValidateTwice ==
    /\ \E call \in {<<"validate", "validated">>, <<"validated", "validated_again">>} :
           pc = call[1] /\ pc' = call[2]
    /\ report' = validate([inflation_rate |-> inflation_rate, tolerance |-> tolerance],
                          extracted_data)
    /\ extracted_data' = RecordAfterValidate(extracted_data)
    /\ UNCHANGED <<provider, response, uploaded_file, st_error, value, number, tables_data, result, tolerance, inflation_rate,
                   actual, expected, comparison>>

NextValidateTwice == ValidateTwice
SpecValidateTwice == InitValidate /\ [][NextValidateTwice]_vars

(***************************************************************************)
(* DocumentParser._extract_student_name and _extract_department            *)
(***************************************************************************)
\* the first position from i on whose character is outside class
RunEnd(s, i, class) ==
    IF \E j \in i..Len(s) : s[j] \notin class
    THEN CHOOSE j \in i..Len(s) : s[j] \notin class /\ \A h \in i..(j - 1) : s[h] \in class
    ELSE Len(s) + 1

\* [A-Z][a-z]+ matched at position i: the position after it, 0 for no match
CapWord(s, i) ==
    IF /\ i + 1 <= Len(s)
       /\ \E u \in 1..26 : UpperSeq[u] = s[i]
       /\ \E l \in 1..26 : LowerSeq[l] = s[i + 1]
    THEN RunEnd(s, i + 1, {LowerSeq[l] : l \in 1..26})
    ELSE 0

\* [A-Z][a-z]+(?:\s+[A-Z][a-z]+)* matched greedily at position i: the
\* position after each of its words
RECURSIVE CapWords(_, _)
CapWords(s, i) ==
    LET e == CapWord(s, i)
        n == RunEnd(s, e, Whitespace)
    IN  IF e = 0 THEN <<>>
        ELSE IF n > e THEN <<e>> \o CapWords(s, n)
        ELSE <<e>>

\* the three patterns of _extract_student_name matched at position i: the
\* position after group 1 and where it starts, <<0, 0>> for no match
NamePattern(k, s, i) ==
    LET prefix == {kw \in {<<"S","t","u","d","e","n","t",":">>, <<"N","a","m","e",":">>, <<"B","y",":">>, <<"A","u","t","h","o","r",":">>} :
                       i + Len(kw) - 1 <= Len(s) /\ SubSeq(s, i, i + Len(kw) - 1) = kw}
        start  == IF k = 1 /\ prefix # {}
                  THEN RunEnd(s, i + Len(CHOOSE kw \in prefix : TRUE), Whitespace)
                  ELSE i
        words  == CapWords(s, start)
        \* \s*\n after word w
        eol(w) == \E j \in words[w]..(RunEnd(s, words[w], Whitespace) - 1) : s[j] = "\n"
    IN  IF k = 1
        THEN IF prefix # {} /\ Len(words) >= 2 THEN <<words[Len(words)], start>> ELSE <<0, 0>>
        ELSE IF k = 2
        THEN IF (i = 1 \/ s[i - 1] = "\n") /\ Len(words) >= 2 THEN <<words[2], start>> ELSE <<0, 0>>
        ELSE IF Len(words) >= 3 /\ eol(3) THEN <<words[3], start>>
        ELSE IF Len(words) >= 2 /\ eol(2) THEN <<words[2], start>>
        ELSE <<0, 0>>

\* re.search(pattern, text, re.MULTILINE) over the patterns in order, each
\* at its leftmost match; match.group(1).strip()
_extract_student_name(text) ==
    LET found == {m \in (1..3) \X (1..Len(text)) : NamePattern(m[1], text, m[2])[1] # 0}
        first == CHOOSE m \in found :
                     \A o \in found : m[1] < o[1] \/ (m[1] = o[1] /\ m[2] <= o[2])
        group == NamePattern(first[1], text, first[2])
    IN  IF found = {} THEN <<"U","n","k","n","o","w","n"," ","S","t","u","d","e","n","t">>
        ELSE SubSeq(text, group[2], group[1] - 1)

dept_keywords ==
    << <<"E","m","e","r","g","e","n","c","y"," ","D","e","p","a","r","t","m","e","n","t">>, <<"E","D">>, <<"E","R">>, <<"E","m","e","r","g","e","n","c","y"," ","R","o","o","m">>,
       <<"N","e","o","n","a","t","a","l"," ","I","n","t","e","n","s","i","v","e"," ","C","a","r","e">>, <<"N","I","C","U">>, <<"I","C","U">>,
       <<"P","e","d","i","a","t","r","i","c">>, <<"S","u","r","g","i","c","a","l">>, <<"M","e","d","i","c","a","l">>,
       <<"N","u","r","s","i","n","g">>, <<"H","S","O","N">>, <<"H","a","r","i","r","i"," ","S","c","h","o","o","l">> >>

\* the first keyword found in the text, and ([^.]*keyword[^.]*) searched
\* without case: the whole dot-free stretch around its first occurrence
_extract_department(text) ==
    LET lower   == Lower(text)
        hits    == {k \in 1..Len(dept_keywords) : Contains(lower, Lower(dept_keywords[k]))}
        keyword == Lower(dept_keywords[CHOOSE k \in hits : \A h \in hits : k <= h])
        occurs  == {i \in 1..(Len(text) - Len(keyword) + 1) : SubSeq(lower, i, i + Len(keyword) - 1) = keyword}
        at      == CHOOSE i \in occurs : \A j \in occurs : i <= j
        dots    == {i \in 1..(at - 1) : text[i] = "."}
        from    == IF dots = {} THEN 1 ELSE (CHOOSE i \in dots : \A j \in dots : j <= i) + 1
        stretch == Strip(SubSeq(text, from, RunEnd(text, at, {text[i] : i \in 1..Len(text)} \ {"."}) - 1))
    IN  IF hits = {} THEN <<"U","n","k","n","o","w","n"," ","D","e","p","a","r","t","m","e","n","t">>
        ELSE SubSeq(stretch, 1, IF Len(stretch) < 100 THEN Len(stretch) ELSE 100)

(***************************************************************************)
(* DocumentParser.parse and the decoders' three routes.  An uploaded file  *)
(* is its name and what its decoder reads from it: the paragraphs and      *)
(* tables of a Word document, the rows of the active sheet of a workbook,  *)
(* the page texts of a PDF.                                                *)
(***************************************************************************)
\* '\n'.join(lines)
RECURSIVE JoinLines(_)
JoinLines(lines) ==
    IF lines = <<>> THEN <<>>
    ELSE IF Len(lines) = 1 THEN lines[1]
    ELSE lines[1] \o <<"\n">> \o JoinLines(Tail(lines))

\* [str(cell) for row in all_data[:10] for cell in row if cell]
RECURSIVE TruthyCells(_)
TruthyCells(rows) ==
    IF rows = <<>> THEN <<>>
    ELSE LET kept == SelectSeq(Head(rows), Truthy)
         IN  [i \in 1..Len(kept) |-> PyStr(kept[i])] \o TruthyCells(Tail(rows))

\* mutant: the page texts joined by newlines
Concat_Lines(pages) == JoinLines(pages)

\* full_text += page.extract_text()
RECURSIVE Concat(_)
Concat(pages) == IF pages = <<>> THEN <<>> ELSE Head(pages) \o Concat(Tail(pages))

StudentInfo(full_text) ==
    [student_name |-> _extract_student_name(full_text), department |-> _extract_department(full_text)]

\* parse_word up to its call of _parse_budget_tables: the text of the
\* paragraphs and the stripped cell texts of the tables
parse_word(file) ==
    [full_text   |-> JoinLines(file.paragraphs),
     tables_data |-> [t \in 1..Len(file.tables) |->
                         [r \in 1..Len(file.tables[t]) |->
                             [c \in 1..Len(file.tables[t][r]) |-> Str(Strip(file.tables[t][r][c].s))]]]]

\* parse_excel up to its call of _parse_budget_tables: the text of the first
\* ten rows and the sheet as the one table
parse_excel(file) ==
    LET all_data == file.rows
    IN  [full_text   |-> JoinSpace(TruthyCells(SubSeq(all_data, 1, IF Len(all_data) < 10 THEN Len(all_data) ELSE 10))),
         tables_data |-> <<all_data>>]

\* parse_pdf up to the record it returns: the text of the pages
parse_pdf(file) == [full_text |-> Concat(file.pages)]

\* uploaded_file.name.split('.')[-1].lower()
file_extension(file) == Lower(Split(file.name, ".")[Len(Split(file.name, "."))])

\* mutant: a route that has no else branch
Routed_Always(ext) == TRUE

\* the if/elif chain of parse has a branch for the extension
Routed(ext) == ext \in {<<"d","o","c","x">>, <<"x","l","s","x">>, <<"p","d","f">>}

\* parse: the route by extension, and the record the route returns
parse(file) ==
    LET ext  == file_extension(file)
        read == IF ext = <<"d","o","c","x">> THEN parse_word(file)
                ELSE IF ext = <<"x","l","s","x">> THEN parse_excel(file)
                ELSE parse_pdf(file)
    IN  IF ~Routed(ext)
        THEN [exc |-> "ValueError", message |-> <<"U","n","s","u","p","p","o","r","t","e","d"," ","f","i","l","e"," ","f","o","r","m","a","t",":"," ">> \o ext]
        ELSE StudentInfo(read.full_text)
                 @@ (IF ext \in {<<"d","o","c","x">>, <<"x","l","s","x">>}
                     THEN _parse_budget_tables(read.tables_data)
                     ELSE [raw_text |-> read.full_text, needs_ai_extraction |-> TRUE])

(***************************************************************************)
(* The Extract & Grade handler of app.py.                                  *)
(***************************************************************************)
\* str(e) of the exceptions the handler catches
ErrorText(e) ==
    IF "message" \in DOMAIN e THEN e.message
    ELSE IF e.exc = "ZeroDivisionError" THEN <<"f","l","o","a","t"," ","d","i","v","i","s","i","o","n"," ","b","y"," ","z","e","r","o">>
    ELSE <<"u","n","s","u","p","p","o","r","t","e","d"," ","o","p","e","r","a","n","d"," ","t","y","p","e","(","s",")"," ","f","o","r"," ","/",":"," ","'","N","o","n","e","T","y","p","e","'"," ","a","n","d"," ","'","i","n","t","'">>

\* not extracted_data.get('fixed_expenses') and not extracted_data.get('variable_expenses')
\* mutant: a record that has a total record is not refused
NoBudgetData_NoTotalEither(data) ==
    /\ Get(data, "fixed_expenses", <<>>) = <<>>
    /\ Get(data, "variable_expenses", <<>>) = <<>>
    /\ Get(data, "total_expenses", EmptyDict) = EmptyDict

NoBudgetData(data) ==
    /\ Get(data, "fixed_expenses", <<>>) = <<>>
    /\ Get(data, "variable_expenses", <<>>) = <<>>

\* the tables of the Word documents uploaded
GradeTables ==
    {FixedStdTable, FixedNoRateTable, VariableStdTable, VariableZeroDaysTable,
     TotalTable, PatientDaysTable, UnrecognizedTable}

UploadedFiles ==
    {[name |-> <<"b","u","d","g","e","t",".","d","o","c","x">>, paragraphs |-> <<>>, tables |-> tables] : tables \in Lists(GradeTables, 0, MaxTables)}
    \cup {[name |-> <<"F","i","n","a","l",".","B","u","d","g","e","t",".","D","O","C","X">>, paragraphs |-> <<<<"B","u","d","g","e","t"," ","R","e","p","o","r","t">>, <<"B","y",":"," ","J","a","n","e"," ","D","o","e"," ">>, <<"U","n","i","t",":"," ","N","I","C","U","."," ","Y","e","a","r"," ","2","0","2","5">>>>, tables |-> <<FixedStdTable>>]}
    \cup {[name |-> <<"b","u","d","g","e","t",".","x","l","s","x">>, rows |-> rows] : rows \in SheetPool}
    \cup {[name |-> name, pages |-> pages] : name \in {<<"b","u","d","g","e","t",".","p","d","f">>, <<"b","u","d","g","e","t",".","t","x","t">>, <<"p","d","f">>, <<"b","u","d","g","e","t",".","d","o","c","x",".","b","a","k">>},
                                              pages \in {<<>>, <<<<"J","a","n","e"," ","D","o","e","\n","E","m","e","r","g","e","n","c","y"," ">>, <<"R","o","o","m"," ","b","u","d","g","e","t","."," ","2","0","2","5">>>>}}

InitGrade ==
    /\ pc = "uploaded"
    /\ uploaded_file \in UploadedFiles
    /\ \E self \in Configurations :
           tolerance = self.tolerance /\ inflation_rate = self.inflation_rate
    /\ extracted_data = None /\ report = None
    /\ st_error = <<>>
    /\ provider = Unset /\ response = Unset
    /\ value = Unset /\ number = Unset
    /\ tables_data = Unset /\ result = Unset
    /\ actual = Unset /\ expected = Unset /\ comparison = Unset

\* parser.parse(uploaded_file), stored in the session state; an exception is
\* caught and shown
Extract ==
    /\ pc = "uploaded"
    /\ \E parsed \in {parse(uploaded_file)} :
           IF Raised(parsed)
           THEN /\ st_error' = Append(st_error, <<"E","r","r","o","r",":"," ">> \o ErrorText(parsed))
                /\ pc' = "failed"
                /\ UNCHANGED extracted_data
           ELSE /\ extracted_data' = parsed
                /\ pc' = "extracted"
                /\ UNCHANGED st_error
    /\ UNCHANGED <<value, number, tables_data, result, tolerance, inflation_rate,
                   actual, expected, comparison, report, uploaded_file,
                   provider, response>>

\* no item of either list: st.error and st.stop()
Refuse ==
    /\ pc = "extracted"
    /\ NoBudgetData(extracted_data)
    /\ st_error' = Append(st_error, WarningSign \o <<" ","N","o"," ","b","u","d","g","e","t"," ","d","a","t","a"," ","f","o","u","n","d"," ","i","n"," ","t","h","e"," ","d","o","c","u","m","e","n","t","."," ","P","l","e","a","s","e"," ","c","h","e","c","k"," ","t","h","e"," ","f","i","l","e"," ","f","o","r","m","a","t",".">>)
    /\ pc' = "stopped"
    /\ UNCHANGED <<value, number, tables_data, result, tolerance, inflation_rate,
                   actual, expected, comparison, extracted_data, report, uploaded_file,
                   provider, response>>

\* use_ai is False: BudgetValidator(inflation_rate, tolerance).validate,
\* its report stored in the session state; an exception is caught and shown
Grade ==
    /\ pc = "extracted"
    /\ ~NoBudgetData(extracted_data)
    /\ \E graded \in {validate([inflation_rate |-> inflation_rate, tolerance |-> tolerance], extracted_data)} :
           IF Raised(graded)
           THEN /\ st_error' = Append(st_error, <<"E","r","r","o","r",":"," ">> \o ErrorText(graded))
                /\ pc' = "failed"
                /\ UNCHANGED report
           ELSE /\ report' = graded
                /\ pc' = "graded"
                /\ UNCHANGED st_error
    /\ extracted_data' = RecordAfterValidate(extracted_data)
    /\ UNCHANGED <<value, number, tables_data, result, tolerance, inflation_rate,
                   actual, expected, comparison, uploaded_file,
                   provider, response>>

NextGrade == Extract \/ Refuse \/ Grade
SpecGrade == InitGrade /\ [][NextGrade]_vars

(***************************************************************************)
(* A session of app.py: st.session_state keeps extracted_data and          *)
(* grading_report from one run of the script to the next, and each press   *)
(* of Extract & Grade runs the handler on the file then uploaded.          *)
(***************************************************************************)
\* the files of a session: three that are graded, one without tables, one
\* whose item makes validate raise, one of an extension parse refuses
SessionFiles ==
    {[name |-> <<"a",".","d","o","c","x">>, paragraphs |-> <<>>, tables |-> <<FixedStdTable>>],
     [name |-> <<"b",".","d","o","c","x">>, paragraphs |-> <<>>, tables |-> <<VariableStdTable>>],
     [name |-> <<"e","m","p","t","y",".","d","o","c","x">>, paragraphs |-> <<>>, tables |-> <<>>],
     [name |-> <<"n","o","r","a","t","e",".","d","o","c","x">>, paragraphs |-> <<>>, tables |-> <<FixedNoRateTable>>],
     [name |-> <<"c",".","x","l","s","x">>, rows |-> FixedSheet],
     [name |-> <<"n","o","t","e","s",".","t","x","t">>, pages |-> <<>>]}

\* if 'extracted_data' not in st.session_state: ... = None, and the same
\* for grading_report
InitSession ==
    /\ pc = "uploaded"
    /\ uploaded_file \in SessionFiles
    /\ \E self \in Configurations :
           tolerance = self.tolerance /\ inflation_rate = self.inflation_rate
    /\ extracted_data = None /\ report = None
    /\ st_error = <<>>
    /\ provider = Unset /\ response = Unset
    /\ value = Unset /\ number = Unset
    /\ tables_data = Unset /\ result = Unset
    /\ actual = Unset /\ expected = Unset /\ comparison = Unset

\* the next request of the session: another file is uploaded and the button
\* pressed; the script runs again with the session state as the run before
\* left it, and what st.error showed is gone
Upload ==
    /\ pc \in {"graded", "failed", "stopped"}
    /\ uploaded_file' \in SessionFiles
    /\ st_error' = <<>>
    /\ pc' = "uploaded"
    /\ UNCHANGED <<value, number, tables_data, result, tolerance, inflation_rate,
                   actual, expected, comparison, extracted_data, report,
                   provider, response>>

NextSession == Extract \/ Refuse \/ Grade \/ Upload
SpecSession == InitSession /\ [][NextSession]_vars

(***************************************************************************)
(* json.loads, for the JSON texts of objects, arrays, strings, integers,   *)
(* true, false and null.  A dict is the sequence of its items in           *)
(* insertion order, a list the sequence of its elements.                   *)
(***************************************************************************)
JsonFail == [ok |-> FALSE]
JsonOk(v, i) == [ok |-> TRUE, v |-> v, i |-> i]

\* the index of the first character at or after i that is no JSON whitespace
RECURSIVE SkipWs(_, _)
SkipWs(s, i) ==
    IF i <= Len(s) /\ s[i] \in {" ", "\t", "\n", "\r"} THEN SkipWs(s, i + 1) ELSE i

StartsWith(s, prefix) ==
    Len(s) >= Len(prefix) /\ SubSeq(s, 1, Len(prefix)) = prefix

EndsWith(s, suffix) ==
    Len(s) >= Len(suffix) /\ SubSeq(s, Len(s) - Len(suffix) + 1, Len(s)) = suffix

\* d[key] = v: the value of a key already there is replaced in place
DictSet(items, key, v) ==
    IF \E n \in 1..Len(items) : items[n][1] = key
    THEN [n \in 1..Len(items) |-> IF items[n][1] = key THEN <<key, v>> ELSE items[n]]
    ELSE Append(items, <<key, v>>)

\* the characters of a string, from i to the closing quote
RECURSIVE JsonString(_, _, _)
JsonString(s, i, acc) ==
    IF i > Len(s) \/ s[i] \in {"\t", "\n", "\r"} THEN JsonFail
    ELSE IF s[i] = "\"" THEN JsonOk(Str(acc), i + 1)
    ELSE IF s[i] # "\\" THEN JsonString(s, i + 1, Append(acc, s[i]))
    ELSE IF i + 1 > Len(s) \/ s[i + 1] \notin {"\"", "\\", "/", "n", "t", "r"} THEN JsonFail
    ELSE JsonString(s, i + 2,
                    Append(acc, CASE s[i + 1] = "n" -> "\n" [] s[i + 1] = "t" -> "\t"
                                  [] s[i + 1] = "r" -> "\r" [] OTHER -> s[i + 1]))

\* the index after the digits that start at i
RECURSIVE DigitsEnd(_, _)
DigitsEnd(s, i) ==
    IF i <= Len(s) /\ s[i] \in Digits THEN DigitsEnd(s, i + 1) ELSE i

\* -? (0 | [1-9][0-9]*)
JsonInt(s, i) ==
    LET first == IF s[i] = "-" THEN i + 1 ELSE i
        last  == IF first <= Len(s) /\ s[first] = "0" THEN first + 1 ELSE DigitsEnd(s, first)
    IN  IF last = first THEN JsonFail
        ELSE JsonOk(IntCell((IF first = i THEN 1 ELSE -1) * DigitsValue(SubSeq(s, first, last - 1))), last)

RECURSIVE JsonValue(_, _)
RECURSIVE JsonMembers(_, _, _)
RECURSIVE JsonElements(_, _, _)

\* the pairs of an object after "{" or ",": i is at the key
JsonMembers(s, i, items) ==
    IF i > Len(s) \/ s[i] # "\"" THEN JsonFail
    ELSE LET key   == JsonString(s, i + 1, <<>>)
             colon == IF key.ok THEN SkipWs(s, key.i) ELSE 0
             val   == IF key.ok /\ colon <= Len(s) /\ s[colon] = ":"
                      THEN JsonValue(s, SkipWs(s, colon + 1)) ELSE JsonFail
             after == IF val.ok THEN SkipWs(s, val.i) ELSE 0
         IN  IF ~val.ok \/ after > Len(s) THEN JsonFail
             ELSE IF s[after] = "}" THEN JsonOk([k |-> "dict", items |-> DictSet(items, key.v.s, val.v)], after + 1)
             ELSE IF s[after] = "," THEN JsonMembers(s, SkipWs(s, after + 1), DictSet(items, key.v.s, val.v))
             ELSE JsonFail

\* the elements of an array after "[" or ",": i is at the element
JsonElements(s, i, items) ==
    LET val   == JsonValue(s, i)
        after == IF val.ok THEN SkipWs(s, val.i) ELSE 0
    IN  IF ~val.ok \/ after > Len(s) THEN JsonFail
        ELSE IF s[after] = "]" THEN JsonOk([k |-> "list", items |-> Append(items, val.v)], after + 1)
        ELSE IF s[after] = "," THEN JsonElements(s, SkipWs(s, after + 1), Append(items, val.v))
        ELSE JsonFail

JsonValue(s, i) ==
    IF i > Len(s) THEN JsonFail
    ELSE IF s[i] = "{"
    THEN IF SkipWs(s, i + 1) <= Len(s) /\ s[SkipWs(s, i + 1)] = "}"
         THEN JsonOk([k |-> "dict", items |-> <<>>], SkipWs(s, i + 1) + 1)
         ELSE JsonMembers(s, SkipWs(s, i + 1), <<>>)
    ELSE IF s[i] = "["
    THEN IF SkipWs(s, i + 1) <= Len(s) /\ s[SkipWs(s, i + 1)] = "]"
         THEN JsonOk([k |-> "list", items |-> <<>>], SkipWs(s, i + 1) + 1)
         ELSE JsonElements(s, SkipWs(s, i + 1), <<>>)
    ELSE IF s[i] = "\"" THEN JsonString(s, i + 1, <<>>)
    ELSE IF s[i] = "-" \/ s[i] \in Digits THEN JsonInt(s, i)
    ELSE IF StartsWith(SubSeq(s, i, Len(s)), <<"t","r","u","e">>) THEN JsonOk([k |-> "bool", b |-> TRUE], i + 4)
    ELSE IF StartsWith(SubSeq(s, i, Len(s)), <<"f","a","l","s","e">>) THEN JsonOk([k |-> "bool", b |-> FALSE], i + 5)
    ELSE IF StartsWith(SubSeq(s, i, Len(s)), <<"n","u","l","l">>) THEN JsonOk(None, i + 4)
    ELSE JsonFail

\* json.loads(s): the value, or JSONDecodeError
json_loads(s) ==
    LET val == JsonValue(s, SkipWs(s, 1))
    IN  IF val.ok /\ SkipWs(s, val.i) > Len(s) THEN val.v ELSE Raise("JSONDecodeError")

(***************************************************************************)
(* AIGrader (utils/ai_grader.py).  An answer of the service is a record:   *)
(* error says that the call itself failed, text is the message content     *)
(* (openai), None when the message has none, or the body of the HTTP       *)
(* response (local).  The backquote is written "U+0060".                  *)
(***************************************************************************)
\* d.get(key, default) of a dict
DictGet(d, key, default) ==
    IF \E n \in 1..Len(d.items) : d.items[n][1] = key
    THEN d.items[CHOOSE n \in 1..Len(d.items) : d.items[n][1] = key][2]
    ELSE default

\* response.json().get('response', '{}'): body is what response.json() gives
LocalResult(body) ==
    IF Raised(body) THEN body
    ELSE IF body.k # "dict" THEN Raise("AttributeError")
    ELSE DictGet(body, <<"r","e","s","p","o","n","s","e">>, Str(<<"{","}">>))

\* result: what the call of the provider's service leaves in it; the
\* anthropic client is None
ServiceResult(self, reply) ==
    IF self.provider = "anthropic" THEN Raise("AttributeError")
    ELSE IF reply.error THEN Raise("ConnectionError")
    ELSE IF self.provider = "openai"
    THEN reply.text
    ELSE LocalResult(IF reply.text = None THEN Raise("JSONDecodeError")
                     ELSE json_loads(reply.text.s))

\* the markdown fence removed from the stripped result
Unfenced(stripped) ==
    LET no_json  == IF StartsWith(stripped, <<"U+0060","U+0060","U+0060","j","s","o","n">>) THEN SubSeq(stripped, 8, Len(stripped)) ELSE stripped
        no_open  == IF StartsWith(no_json, <<"U+0060","U+0060","U+0060">>) THEN SubSeq(no_json, 4, Len(no_json)) ELSE no_json
    IN  IF EndsWith(no_open, <<"U+0060","U+0060","U+0060">>) THEN SubSeq(no_open, 1, Len(no_open) - 3) ELSE no_open

\* except json.JSONDecodeError as e: raise ValueError(f"...{e}\n\nResponse: {result}")
Loaded(loaded, head, cleaned) ==
    IF Raised(loaded) THEN [exc |-> "ValueError", message |-> head, response |-> cleaned]
    ELSE loaded

\* the try block: strip, remove the fence, json.loads
ParseResponse(called, head) ==
    IF Raised(called) THEN called
    ELSE IF called.k # "str" THEN Raise("AttributeError")
    ELSE Loaded(json_loads(Strip(Unfenced(Strip(called.s)))), head, Unfenced(Strip(called.s)))

_ai_extract_data(self, reply) ==
    ParseResponse(ServiceResult(self, reply), <<"A","I"," ","r","e","t","u","r","n","e","d"," ","i","n","v","a","l","i","d"," ","J","S","O","N",":"," ">>)

_ai_validate(self, reply) ==
    ParseResponse(ServiceResult(self, reply), <<"A","I"," ","v","a","l","i","d","a","t","i","o","n"," ","r","e","t","u","r","n","e","d"," ","i","n","v","a","l","i","d"," ","J","S","O","N",":"," ">>)

\* the message contents and HTTP bodies the service answers with
ReplyTexts ==
    {<<"{","\"","s","t","u","d","e","n","t","_","n","a","m","e","\"",":","\"","J","a","n","e","\"",",","\"","f","i","x","e","d","_","e","x","p","e","n","s","e","s","\"",":","[","]","}">>, <<"{","}">>, <<"U+0060","U+0060","U+0060","j","s","o","n","\n","{","\"","p","e","r","c","e","n","t","a","g","e","\"",":","1","0","0","}","\n","U+0060","U+0060","U+0060">>,
     <<"S","o","r","r","y",","," ","I"," ","c","a","n","n","o","t">>, <<"{","\"","p","e","r","c","e","n","t","a","g","e","\"",":">>, <<>>, <<"[","]">>,
     <<"{","\"","r","e","s","p","o","n","s","e","\"",":","\"","{","\\","\"","p","e","r","c","e","n","t","a","g","e","\\","\"",":","1","0","0","}","\"","}">>, <<"{","\"","e","r","r","o","r","\"",":","\"","m","o","d","e","l"," ","n","o","t"," ","f","o","u","n","d","\"","}">>,
     <<"{","\"","r","e","s","p","o","n","s","e","\"",":","\"","o","o","p","s","\"","}">>, <<"<","h","t","m","l",">">>, <<"{","\"","r","e","s","p","o","n","s","e","\"",":","n","u","l","l","}">>, <<"{","\"","r","e","s","p","o","n","s","e","\"",":","\"","{","}","\"","}">>}

Replies ==
    {[error |-> FALSE, text |-> text] : text \in {Str(s) : s \in ReplyTexts} \cup {None}}
    \cup {[error |-> TRUE, text |-> None]}

Providers == {"openai", "anthropic", "local"}

\* the records handed to grade: the record of a PDF, and a canonical record
GradedRecords ==
    {[student_name |-> <<"U","n","k","n","o","w","n">>, department |-> <<"U","n","k","n","o","w","n">>, raw_text |-> <<"R","e","n","t"," ","5","0","0">>, needs_ai_extraction |-> TRUE],
     CanonicalRecord(<<FixedRecord(<<"R","e","n","t">>, Num(500, 1), Num(100, 1), Num(1200, 1), Num(5, 1), Num(60, 1), Num(1260, 1))>>, <<>>, EmptyDict)}

InitAI ==
    /\ pc = "grade"
    /\ provider \in Providers
    /\ response \in Replies \X Replies
    /\ extracted_data \in GradedRecords
    /\ report = None
    /\ inflation_rate = Num(5, 1) /\ tolerance = Num(1, 2)
    /\ uploaded_file = Unset /\ st_error = Unset
    /\ value = Unset /\ number = Unset
    /\ tables_data = Unset /\ result = Unset
    /\ actual = Unset /\ expected = Unset /\ comparison = Unset

\* grade: if extracted_data.get('needs_ai_extraction'), the record is the
\* one _ai_extract_data returns; what it raises leaves grade
AiExtractData ==
    /\ pc = "grade"
    /\ Get(extracted_data, "needs_ai_extraction", FALSE)
    /\ \E extracted \in {_ai_extract_data([provider |-> provider], response[1])} :
           IF Raised(extracted)
           THEN /\ report' = extracted
                /\ pc' = "raised"
                /\ UNCHANGED extracted_data
           ELSE /\ extracted_data' = extracted
                /\ pc' = "extracted"
                /\ UNCHANGED report
    /\ UNCHANGED <<value, number, tables_data, result, tolerance, inflation_rate,
                   actual, expected, comparison, uploaded_file, st_error,
                   provider, response>>

\* grade: the report is the one _ai_validate returns
AiValidate ==
    /\ \/ pc = "extracted"
       \/ pc = "grade" /\ ~Get(extracted_data, "needs_ai_extraction", FALSE)
    /\ \E validation_result \in {_ai_validate([provider |-> provider], response[2])} :
           /\ report' = validation_result
           /\ pc' = IF Raised(validation_result) THEN "raised" ELSE "returned"
    /\ UNCHANGED <<value, number, tables_data, result, tolerance, inflation_rate,
                   actual, expected, comparison, uploaded_file, st_error,
                   provider, response, extracted_data>>

NextAI == AiExtractData \/ AiValidate
SpecAI == InitAI /\ [][NextAI]_vars

(***************************************************************************)
(* Claims about _parse_number, checked under SpecNum.                      *)
(***************************************************************************)
Returned == pc = "returned"
HasEquals(s) == \E i \in 1..Len(s) : s[i] = "="

\* the text after the last '=' of s
AfterLastEquals(s) ==
    LET i == CHOOSE j \in 1..Len(s) :
                 s[j] = "=" /\ \A h \in (j + 1)..Len(s) : s[h] # "="
    IN  SubSeq(s, i + 1, Len(s))

\* a text without '$', ',', '%' and whitespace
WithoutSymbols(s) ==
    SelectSeq(s, LAMBDA c : c \notin {"$", ",", "%", " ", "\t", "\n"})

\* the part of a cell text that carries the number
Payload(s) == WithoutSymbols(IF HasEquals(s) THEN AfterLastEquals(s) ELSE s)

\* the number a text denotes, absent when it denotes none
NumberOf(s) ==
    IF s = <<>> \/ PyFloat(s) = ValueError THEN None ELSE PyFloat(s)

\* C1: for a cell text with an '=', the result is the number of the text
\* after the last '=' without '$', ',', '%' and whitespace ("500/5= 100$"
\* gives 100, "100 x 12= 1,200$" gives 1200), and replacing the text before
\* the last '=' by any other text leaves the result the same.
C1_AfterLastEquals ==
    (Returned /\ value # None /\ HasEquals(value.s)) =>
        /\ number = NumberOf(WithoutSymbols(AfterLastEquals(value.s)))
        /\ \A before \in Texts(1) :
               _parse_number(Str(before \o <<"=">> \o AfterLastEquals(value.s))) = number
        /\ value.s = <<"5","0","0","/","5","="," ","1","0","0","$">> => number = Num(100, 1)
        /\ value.s = <<"1","0","0"," ","x"," ","1","2","="," ","1",",","2","0","0","$">> => number = Num(1200, 1)

C1_Witness ==
    /\ Returned
    /\ value = Str(<<"x","=","1","=","5">>)
    /\ number = Num(5, 1)

\* a text that is no float literal: it has no digit, or a character no
\* float literal has; "inf", "infinity" and "nan" are literals
FloatChars == Digits \cup {"+", "-", ".", "e", "E", "_"}
Unsigned(s) == IF s # <<>> /\ s[1] \in {"+", "-"} THEN Tail(s) ELSE s
NoNumber(s) ==
    /\ Lower(Unsigned(s)) \notin
           {<<"i","n","f">>, <<"i","n","f","i","n","i","t","y">>, <<"n","a","n">>}
    /\ \/ \A i \in 1..Len(s) : s[i] \notin Digits
       \/ \E i \in 1..Len(s) : s[i] \notin FloatChars
       \/ PyFloat(s) = ValueError

\* C2: _parse_number returns a value for every input and raises nothing;
\* for null, "", "none" in any letter case, a text that is empty without
\* its symbols and a text that is no number it returns None, and it returns
\* 0 only for a text made of a float literal's characters, a digit among them.
C2_AbsentNeverZero ==
    Returned =>
        /\ number.k \in {"None", "num", "nan", "inf"}
        /\ (value = None \/ value.s = <<>> \/ Lower(value.s) = <<"n","o","n","e">>)
               => number = None
        /\ (value # None /\ (Payload(value.s) = <<>> \/ NoNumber(Payload(value.s))))
               => number = None
        /\ number = Num(0, 1) =>
               /\ \E i \in 1..Len(Payload(value.s)) : Payload(value.s)[i] \in Digits
               /\ \A i \in 1..Len(Payload(value.s)) : Payload(value.s)[i] \in FloatChars

C2_Witness ==
    /\ Returned
    /\ value = Str(<<"1", "x">>)
    /\ number = None

(***************************************************************************)
(* Claims about the extractor, checked under SpecExtract.                  *)
(***************************************************************************)
Extracted == pc = "extracted"

SeqRange(seq) == {seq[i] : i \in 1..Len(seq)}
ItemsOf(res) == SeqRange(res.fixed_expenses) \cup SeqRange(res.variable_expenses)
NumericFields(rec) == DOMAIN rec \ {"description"}

\* C3: every numeric field of every fixed item, variable item and of the
\* total record that the extractor returns is absent or a finite number.
C3_NumericFieldsFinite ==
    Extracted =>
        \A rec \in ItemsOf(result) \cup {result.total_expenses} :
            \A f \in NumericFields(rec) : rec[f] = None \/ rec[f].k = "num"

\* the first kind, in the order Fixed, Variable, Total, Patient-Days, whose
\* predicate holds of a table with a header row
KindOf(table) ==
    LET headers == Headers(table)
    IN  IF is_fixed(headers) THEN "fixed"
        ELSE IF is_variable(headers) THEN "variable"
        ELSE IF is_total(table, headers) THEN "total"
        ELSE IF AnyPatientDays(table) THEN "patient_days"
        ELSE "unrecognized"

\* the last table of a kind among the tables with at least `rows` rows
\* (0: there is none)
LastOfKind(tables, kind, rows) ==
    LET of == {i \in 1..Len(tables) :
                   Len(tables[i]) >= rows /\ KindOf(tables[i]) = kind}
    IN  IF of = {} THEN 0 ELSE CHOOSE i \in of : \A j \in of : j <= i

\* the record in which every table with at least `rows` rows is parsed as
\* its kind and as nothing else
Classified(tables, rows) ==
    LET f == LastOfKind(tables, "fixed", rows)
        v == LastOfKind(tables, "variable", rows)
        t == LastOfKind(tables, "total", rows)
        p == LastOfKind(tables, "patient_days", rows)
    IN  [fixed_expenses |-> IF f = 0 THEN <<>> ELSE _parse_fixed_table(tables[f]),
         variable_expenses |-> IF v = 0 THEN <<>> ELSE _parse_variable_table(tables[v]),
         total_expenses |-> IF t = 0 THEN EmptyDict ELSE _parse_total_table(tables[t]),
         patient_days_initial |-> IF p = 0 THEN None ELSE _extract_patient_days(tables[p])]

OneTable == Len(tables_data) = 1 /\ Len(tables_data[1]) >= 2

\* C4 (as amended): every table with at least two rows is parsed as the
\* first of the kinds Fixed, Variable, Total, Patient-Days whose predicate
\* holds and as no other: Fixed wins over Variable, Variable over Total, a
\* table of more than 3 rows is never parsed as Total, a table of no kind
\* changes nothing; a table with fewer than two rows is skipped unclassified.
C4_FirstKindOfTablesWithRows ==
    Extracted =>
        /\ result = Classified(tables_data, 2)
        /\ (OneTable /\ is_fixed(Headers(tables_data[1]))
                     /\ is_variable(Headers(tables_data[1])))
               => /\ result.fixed_expenses = _parse_fixed_table(tables_data[1])
                  /\ result.variable_expenses = <<>>
        /\ (OneTable /\ ~is_fixed(Headers(tables_data[1]))
                     /\ is_variable(Headers(tables_data[1])))
               => /\ result.variable_expenses = _parse_variable_table(tables_data[1])
                  /\ result.total_expenses = EmptyDict
        /\ (OneTable /\ Len(tables_data[1]) > 3) => result.total_expenses = EmptyDict
        /\ \A i \in 1..Len(tables_data) :
               (Len(tables_data[i]) < 2 \/ KindOf(tables_data[i]) = "unrecognized")
                   => _parse_budget_tables(SubSeq(tables_data, 1, i))
                          = _parse_budget_tables(SubSeq(tables_data, 1, i - 1))

\* C4 (as claimed): every raw table, whatever its number of rows, is parsed
\* as the first kind whose header predicate holds.
C4_FirstKindOfEveryTable ==
    Extracted => result = Classified(tables_data, 1)

C4_Witness ==
    /\ Extracted
    /\ tables_data = <<VariableTable, FixedVariableTable, FixedHeaderOnlyTable>>
           \/ tables_data = <<VariableTable, FixedVariableTable>>
    /\ Len(result.fixed_expenses) = 1
    /\ Len(result.variable_expenses) = 1

\* the maximal runs of word characters of a text
WordsOf(s) ==
    {SubSeq(s, i, j) : i \in 1..Len(s), j \in 1..Len(s)} \cap
    {SubSeq(s, ij[1], ij[2]) : ij \in
        {p \in (1..Len(s)) \X (1..Len(s)) :
            /\ p[1] <= p[2]
            /\ \A h \in p[1]..p[2] : s[h] \in WordChars
            /\ p[1] = 1 \/ s[p[1] - 1] \notin WordChars
            /\ p[2] = Len(s) \/ s[p[2] + 1] \notin WordChars}}
FooterWords == {<<"t","o","t","a","l">>, <<"s","u","b","t","o","t","a","l">>, <<"s","u","m">>}

\* the data rows of a table whose description cell, in the column the
\* description is mapped to, is exactly "Total" in some letter case
TotalRows(table, kind) ==
    LET col_map == ColMap(Headers(table), kind)
        d == IF "description" \in DOMAIN col_map THEN col_map["description"] + 1 ELSE 1
    IN  {r \in 2..Len(table) :
            /\ Len(table[r]) >= d
            /\ table[r][d] # None
            /\ Lower(PyStr(table[r][d])) = <<"t","o","t","a","l">>}

\* C5: no extracted fixed or variable item has an empty description or one
\* with "total", "subtotal" or "sum" as a whole word in any letter case; a
\* row whose description cell is exactly "Total" gives no item, in
\* whichever column the description stands.
C5_NoFooterItems ==
    Extracted =>
        /\ \A item \in ItemsOf(result) :
               /\ item["description"] # <<>>
               /\ WordsOf(Lower(item["description"])) \cap FooterWords = {}
        /\ (OneTable /\ KindOf(tables_data[1]) = "fixed") =>
               Len(result.fixed_expenses) + Cardinality(TotalRows(tables_data[1], "fixed"))
                   <= Len(tables_data[1]) - 1
        /\ (OneTable /\ KindOf(tables_data[1]) = "variable") =>
               Len(result.variable_expenses)
                       + Cardinality(TotalRows(tables_data[1], "variable"))
                   <= Len(tables_data[1]) - 1

C5_Witness ==
    /\ Extracted
    /\ OneTable
    /\ tables_data[1][1] = FixedItemLastHeader
    /\ Cardinality(TotalRows(tables_data[1], "fixed")) = 1
    /\ Len(result.fixed_expenses) = 1

(***************************************************************************)
(* Claims about _compare_values, checked under SpecCompare.                *)
(***************************************************************************)
Compared == pc = "compared"

\* a count of cents written with two decimals
CentsText(c) ==
    IntStr(c \div 100) \o <<".">>
        \o <<DigitSeq[((c \div 10) % 10) + 1], DigitSeq[(c % 10) + 1]>>

IncorrectStatus(d) == <<CrossMark>> \o <<" ","I","n","c","o","r","r","e","c","t"," ","(","o","f","f"," ","b","y"," ">> \o d \o <<")">>

\* C6: for every present actual value, expected value and tolerance,
\* _compare_values reports correct = true exactly when
\* |actual - expected| <= tolerance, the bound included; the status is
\* "Correct" when correct and otherwise "Incorrect (off by d)" with d the
\* difference to 2 decimals (nan or inf when the difference is not finite);
\* 100 against an expected 500/5 = 100 at tolerance 0.5 is correct, and 101 is
\* incorrect with a status containing "off by 1.00".
C6_InclusiveTolerance ==
    (Compared /\ actual # None) =>
        LET finite == IsNum(actual) /\ IsNum(expected)
            num == Abs(actual.n * expected.d - expected.n * actual.d)
            den == actual.d * expected.d
            within == finite /\ num * tolerance.d <= tolerance.n * den
            lo == (100 * num) \div den
            undefined == IsNaN(actual) \/ IsNaN(expected)
                         \/ (IsInf(actual) /\ IsInf(expected)
                             /\ actual.sign = expected.sign)
        IN  /\ comparison.correct = within
            /\ within => comparison.status = <<CheckMark>> \o <<" ","C","o","r","r","e","c","t">>
            /\ (~within /\ finite) =>
                   \E c \in {lo, lo + 1} :
                       /\ 2 * Abs(100 * num - c * den) <= den
                       /\ comparison.status = IncorrectStatus(CentsText(c))
            /\ (~finite /\ undefined) => comparison.status = IncorrectStatus(<<"n","a","n">>)
            /\ (~finite /\ ~undefined) => comparison.status = IncorrectStatus(<<"i","n","f">>)
            /\ (expected = Num(100, 1) /\ tolerance = Num(1, 2)) =>
                   /\ actual = Num(100, 1) => comparison.correct
                   /\ actual = Num(101, 1) =>
                          /\ ~comparison.correct
                          /\ Contains(comparison.status, <<"o","f","f"," ","b","y"," ","1",".","0","0">>)

\* a submitted value exactly the tolerance away is reported correct
C6_Witness ==
    /\ Compared
    /\ actual = Num(201, 2) /\ expected = Num(100, 1) /\ tolerance = Num(1, 2)
    /\ comparison.correct
    /\ comparison.status = <<CheckMark>> \o <<" ","C","o","r","r","e","c","t">>

(***************************************************************************)
(* Claims about validate, checked under SpecValidate.                      *)
(***************************************************************************)
Validated == pc = "validated"
ReturnedReport == Validated /\ ~Raised(report)

\* the validation results of a report, each named by section, position and field
ResultsOf(rep) ==
    UNION {{<<"fixed", i, key>> :
                key \in DOMAIN rep.fixed_expenses_results[i].validations} :
            i \in 1..Len(rep.fixed_expenses_results)}
    \cup UNION {{<<"variable", i, key>> :
                key \in DOMAIN rep.variable_expenses_results[i].validations} :
            i \in 1..Len(rep.variable_expenses_results)}
    \cup {<<"total", 0, key>> : key \in DOMAIN rep.total_expenses_results}

ResultAt(rep, t) ==
    IF t[1] = "fixed" THEN rep.fixed_expenses_results[t[2]].validations[t[3]]
    ELSE IF t[1] = "variable" THEN rep.variable_expenses_results[t[2]].validations[t[3]]
    ELSE rep.total_expenses_results[t[3]]

\* C7: in every report returned by validate, total_calculations is the number
\* of validation results of the fixed, variable and total sections together,
\* and correct_count is the number of those whose correct flag is true, so
\* correct_count never exceeds total_calculations.
C7_CountsMatchResults ==
    ReturnedReport =>
        /\ report.total_calculations = Cardinality(ResultsOf(report))
        /\ report.correct_count =
               Cardinality({t \in ResultsOf(report) : ResultAt(report, t).correct})
        /\ report.correct_count <= report.total_calculations

\* a report with results in all three sections, some right and some wrong
C7_Witness ==
    /\ ReturnedReport
    /\ \E t \in ResultsOf(report) : t[1] = "fixed"
    /\ \E t \in ResultsOf(report) : t[1] = "variable"
    /\ \E t \in ResultsOf(report) : t[1] = "total"
    /\ 0 < report.correct_count
    /\ report.correct_count < report.total_calculations

\* the derived fields of each record kind and the operands of their formulas
FixedFormulas ==
    ("monthly_consumption" :> {"5_month_consumption"})
    @@ ("2024_year_consumption" :> {"monthly_consumption"})
    @@ ("inflation_amount" :> {"2024_year_consumption"})
    @@ ("estimated_2025_consumption" :> {"2024_year_consumption", "inflation_amount"})

VariableFormulas ==
    ("estimated_2025_yearly_pt_days" :> {"5_month_patient_days"})
    @@ ("consumption_per_patient_day" :> {"5_month_consumption", "5_month_patient_days"})
    @@ ("amount_per_yearly_pt_days" :>
            {"consumption_per_patient_day", "estimated_2025_yearly_pt_days"})
    @@ ("inflation_amount" :> {"amount_per_yearly_pt_days"})
    @@ ("total_amount" :> {"amount_per_yearly_pt_days", "inflation_amount"})

TotalFormulas ==
    ("5_month_consumption" :> {})
    @@ ("yearly_consumption" :> {})
    @@ ("inflation_amount" :> {"yearly_consumption"})
    @@ ("total_amount" :> {"yearly_consumption", "inflation_amount"})

Present(item, field) == field \in DOMAIN item /\ item[field] # None

\* the derived fields whose submitted value and operands are all present
Applicable(item, formulas) ==
    {f \in DOMAIN formulas :
        Present(item, f) /\ \A operand \in formulas[f] : Present(item, operand)}

Section(data, key) == IF key \in DOMAIN data THEN data[key] ELSE <<>>
SubmittedTotal(data) ==
    IF "total_expenses" \in DOMAIN data THEN data["total_expenses"] ELSE EmptyDict

\* no check of the record has its inputs
NoCheckApplies(data) ==
    /\ \A i \in 1..Len(Section(data, "fixed_expenses")) :
           Applicable(Section(data, "fixed_expenses")[i], FixedFormulas) = {}
    /\ \A i \in 1..Len(Section(data, "variable_expenses")) :
           Applicable(Section(data, "variable_expenses")[i], VariableFormulas) = {}
    /\ Applicable(SubmittedTotal(data), TotalFormulas) = {}

\* C8: in every report returned by validate, percentage is
\* 100 * correct_count / total_calculations when total_calculations > 0 and
\* 0.0 when it is 0; on a record that yields no validations validate returns
\* such a report and does not fail with a division error.
C8_PercentageGuarded ==
    Validated =>
        /\ ~Raised(report) =>
               report.percentage =
                   IF report.total_calculations > 0
                   THEN Num(100 * report.correct_count, report.total_calculations)
                   ELSE Num(0, 1)
        /\ NoCheckApplies(extracted_data) =>
               /\ ~Raised(report)
               /\ report.total_calculations = 0
               /\ report.percentage = Num(0, 1)

\* a record with an item but nothing to validate gets 0.0
C8_Witness ==
    /\ ReturnedReport
    /\ Len(report.fixed_expenses_results) + Len(report.variable_expenses_results) > 0
    /\ NoCheckApplies(extracted_data)
    /\ report.total_calculations = 0
    /\ report.percentage = Num(0, 1)

RECURSIVE ApplicableCount(_, _)
ApplicableCount(items, formulas) ==
    IF items = <<>> THEN 0
    ELSE Cardinality(Applicable(Head(items), formulas))
             + ApplicableCount(Tail(items), formulas)

\* C9: for every fixed and variable item, a derived field has a validation
\* result in the report exactly when its submitted value and every operand of
\* its formula are present; a field with an absent operand or an absent
\* submitted value has no result and adds nothing to total_calculations or
\* correct_count.
C9_ValidatedIffInputsPresent ==
    Validated =>
        LET fixed == Section(extracted_data, "fixed_expenses")
            variable == Section(extracted_data, "variable_expenses")
            counted == ApplicableCount(fixed, FixedFormulas)
                       + ApplicableCount(variable, VariableFormulas)
                       + Cardinality(DOMAIN report.total_expenses_results)
        IN  /\ \A i \in 1..Len(fixed) :
                   /\ ~Raised(report)
                   /\ Len(report.fixed_expenses_results) = Len(fixed)
                   /\ DOMAIN report.fixed_expenses_results[i].validations
                          = Applicable(fixed[i], FixedFormulas)
            /\ \A i \in 1..Len(variable) :
                   /\ ~Raised(report)
                   /\ Len(report.variable_expenses_results) = Len(variable)
                   /\ DOMAIN report.variable_expenses_results[i].validations
                          = Applicable(variable[i], VariableFormulas)
            /\ ~Raised(report) =>
                   /\ report.total_calculations = counted
                   /\ report.correct_count <= counted

\* the records on which validate raises: an inflation check meets a rate that
\* is there but null, or the per-day check meets zero patient days
NullRate(item) == "inflation_rate" \in DOMAIN item /\ item["inflation_rate"] = None

Raises(data) ==
    \/ \E i \in 1..Len(Section(data, "fixed_expenses")) :
           LET item == Section(data, "fixed_expenses")[i]
           IN  "inflation_amount" \in Applicable(item, FixedFormulas) /\ NullRate(item)
    \/ \E i \in 1..Len(Section(data, "variable_expenses")) :
           LET item == Section(data, "variable_expenses")[i]
           IN  \/ "inflation_amount" \in Applicable(item, VariableFormulas)
                      /\ NullRate(item)
               \/ "consumption_per_patient_day" \in Applicable(item, VariableFormulas)
                      /\ item["5_month_patient_days"] = Num(0, 1)
    \/ "inflation_amount" \in Applicable(SubmittedTotal(data), TotalFormulas)
           /\ NullRate(SubmittedTotal(data))

RateToUse(item) ==
    IF Present(item, "inflation_rate") THEN item["inflation_rate"] ELSE inflation_rate

\* the inflation-amount result of a record's validations recomputes base * rate / 100
UsesRate(item, validations, base) ==
    /\ "inflation_amount" \in DOMAIN validations
    /\ validations["inflation_amount"].expected
           = Round2(FMul(item[base], FDiv(RateToUse(item), Num(100, 1))))

\* C11: for every fixed item, variable item and total record, the
\* inflation-amount check uses the record's own inflation_rate when it is
\* present and the configured default rate when it is absent, also when the
\* inflation_rate field is there with an absent value.
C11_OwnRateElseDefault ==
    Validated =>
        LET fixed == Section(extracted_data, "fixed_expenses")
            variable == Section(extracted_data, "variable_expenses")
            total == SubmittedTotal(extracted_data)
        IN  /\ \A i \in 1..Len(fixed) :
                   "inflation_amount" \in Applicable(fixed[i], FixedFormulas) =>
                       /\ ~Raised(report)
                       /\ UsesRate(fixed[i], report.fixed_expenses_results[i].validations,
                                   "2024_year_consumption")
            /\ \A i \in 1..Len(variable) :
                   "inflation_amount" \in Applicable(variable[i], VariableFormulas) =>
                       /\ ~Raised(report)
                       /\ UsesRate(variable[i],
                                   report.variable_expenses_results[i].validations,
                                   "amount_per_yearly_pt_days")
            /\ "inflation_amount" \in Applicable(total, TotalFormulas) =>
                   /\ ~Raised(report)
                   /\ UsesRate(total, report.total_expenses_results, "yearly_consumption")

(***************************************************************************)
(* Claims about the expected values, checked under SpecValidate.           *)
(***************************************************************************)
AllPresent(item, fields) == \A f \in fields : Present(item, f)

FixedFields ==
    {"5_month_consumption", "monthly_consumption", "2024_year_consumption",
     "inflation_rate", "inflation_amount", "estimated_2025_consumption"}

\* C14: for every fixed item with all fields present, its results are the
\* four of monthly, 2024 year, inflation amount and estimated 2025, and
\* their expected values (rounded to 2 decimals, as every expected value of
\* a result) are submitted five_month / 5, submitted monthly * 12, submitted
\* year_2024 * rate / 100 and submitted year_2024 + submitted
\* inflation_amount: each from the submitted value of the preceding field,
\* not from a recomputed one.
C14_FixedExpected ==
    ReturnedReport =>
        \A i \in 1..Len(Section(extracted_data, "fixed_expenses")) :
            LET item == Section(extracted_data, "fixed_expenses")[i]
                v    == report.fixed_expenses_results[i].validations
            IN  AllPresent(item, FixedFields) =>
                    /\ DOMAIN v = DOMAIN FixedFormulas
                    /\ v["monthly_consumption"].expected =
                           Round2(FDiv(item["5_month_consumption"], Num(5, 1)))
                    /\ v["2024_year_consumption"].expected =
                           Round2(FMul(item["monthly_consumption"], Num(12, 1)))
                    /\ v["inflation_amount"].expected =
                           Round2(FDiv(FMul(item["2024_year_consumption"], item["inflation_rate"]), Hundred))
                    /\ v["estimated_2025_consumption"].expected =
                           Round2(FAdd(item["2024_year_consumption"], item["inflation_amount"]))

\* a fixed item whose submitted monthly figure is wrong: the yearly figure
\* is expected from it all the same
C14_Witness ==
    /\ ReturnedReport
    /\ Len(Section(extracted_data, "fixed_expenses")) = 1
    /\ LET item == extracted_data.fixed_expenses[1]
           v    == report.fixed_expenses_results[1].validations
       IN  /\ AllPresent(item, FixedFields)
           /\ item["5_month_consumption"] = Num(500, 1)
           /\ item["monthly_consumption"] = Num(101, 1)
           /\ ~v["monthly_consumption"].correct
           /\ v["2024_year_consumption"].expected = Num(1212, 1)

VariableFields ==
    {"5_month_consumption", "5_month_patient_days", "consumption_per_patient_day",
     "estimated_2025_yearly_pt_days", "amount_per_yearly_pt_days", "inflation_rate",
     "inflation_amount", "total_amount"}

\* C15: for every variable item with all fields present and five-month
\* patient days other than 0, its results are the five of yearly patient
\* days, consumption per patient day, yearly amount, inflation amount and
\* total amount, and their expected values (rounded to 2 decimals) are
\* (five_month_patient_days / 5) * 12, five_month_consumption /
\* five_month_patient_days, submitted consumption per day * submitted yearly
\* patient days, submitted amount * rate / 100 and submitted amount +
\* submitted inflation_amount.
C15_VariableExpected ==
    ReturnedReport =>
        \A i \in 1..Len(Section(extracted_data, "variable_expenses")) :
            LET item == Section(extracted_data, "variable_expenses")[i]
                v    == report.variable_expenses_results[i].validations
            IN  (AllPresent(item, VariableFields) /\ item["5_month_patient_days"] # Num(0, 1)) =>
                    /\ DOMAIN v = DOMAIN VariableFormulas
                    /\ v["estimated_2025_yearly_pt_days"].expected =
                           Round2(FMul(FDiv(item["5_month_patient_days"], Num(5, 1)), Num(12, 1)))
                    /\ v["consumption_per_patient_day"].expected =
                           Round2(FDiv(item["5_month_consumption"], item["5_month_patient_days"]))
                    /\ v["amount_per_yearly_pt_days"].expected =
                           Round2(FMul(item["consumption_per_patient_day"], item["estimated_2025_yearly_pt_days"]))
                    /\ v["inflation_amount"].expected =
                           Round2(FDiv(FMul(item["amount_per_yearly_pt_days"], item["inflation_rate"]), Hundred))
                    /\ v["total_amount"].expected =
                           Round2(FAdd(item["amount_per_yearly_pt_days"], item["inflation_amount"]))

\* a variable item whose submitted consumption per day is wrong: the yearly
\* amount is expected from it all the same
C15_Witness ==
    /\ ReturnedReport
    /\ Len(Section(extracted_data, "variable_expenses")) = 1
    /\ LET item == extracted_data.variable_expenses[1]
           v    == report.variable_expenses_results[1].validations
       IN  /\ AllPresent(item, VariableFields)
           /\ item["5_month_patient_days"] = Num(50, 1)
           /\ item["consumption_per_patient_day"] = Num(21, 1)
           /\ ~v["consumption_per_patient_day"].correct
           /\ v["amount_per_yearly_pt_days"].expected = Num(2520, 1)

\* the sum of a field over the items, an absent addend counted as 0
RECURSIVE SumPresent(_, _)
SumPresent(items, key) ==
    IF items = <<>> THEN Num(0, 1)
    ELSE FAdd(IF Present(Head(items), key) THEN Head(items)[key] ELSE Num(0, 1),
              SumPresent(Tail(items), key))

\* the five-month figures of the items of a record, those present
FiveMonthFigures(data) ==
    LET items == Section(data, "fixed_expenses") \o Section(data, "variable_expenses")
    IN  {i \in 1..Len(items) : Present(items[i], "5_month_consumption")}

\* C16: the expected five-month consumption of the total record is the sum
\* of the five-month consumption of all fixed and all variable items, and
\* the expected yearly consumption is the sum of the 2024 year consumption
\* of the fixed items plus the amount per yearly patient days of the
\* variable items, an absent addend counted as 0 (both rounded to 2
\* decimals); a submitted total of 37750 is correct when the items sum to
\* 37750 and incorrect when an item's five-month value is absent and the
\* shortfall exceeds the tolerance.
C16_TotalSums ==
    ReturnedReport =>
        LET fixed    == Section(extracted_data, "fixed_expenses")
            variable == Section(extracted_data, "variable_expenses")
            total    == SubmittedTotal(extracted_data)
            t        == report.total_expenses_results
        IN  /\ Present(total, "5_month_consumption") =>
                   /\ "5_month_consumption" \in DOMAIN t
                   /\ t["5_month_consumption"].expected =
                          Round2(SumPresent(fixed \o variable, "5_month_consumption"))
            /\ Present(total, "yearly_consumption") =>
                   /\ "yearly_consumption" \in DOMAIN t
                   /\ t["yearly_consumption"].expected =
                          Round2(FAdd(SumPresent(fixed, "2024_year_consumption"),
                                      SumPresent(variable, "amount_per_yearly_pt_days")))
            /\ extracted_data \in ExampleRecords =>
                   /\ SumPresent(fixed \o variable, "5_month_consumption") = Num(37750, 1)
                          => t["5_month_consumption"].correct
                   /\ (/\ Cardinality(FiveMonthFigures(extracted_data)) < 3
                       /\ ~FLe(FSub(Num(37750, 1), SumPresent(fixed \o variable, "5_month_consumption")), tolerance))
                          => ~t["5_month_consumption"].correct

\* the 37750 budget with the five-month figure of one item absent: the
\* expected sum is 10000 short and the submitted total incorrect
C16_Witness ==
    /\ ReturnedReport
    /\ extracted_data \in ExampleRecords
    /\ ~Present(extracted_data.fixed_expenses[2], "5_month_consumption")
    /\ Present(extracted_data.variable_expenses[1], "5_month_consumption")
    /\ report.total_expenses_results["5_month_consumption"].expected = Num(27750, 1)
    /\ ~report.total_expenses_results["5_month_consumption"].correct
    /\ report.total_expenses_results["5_month_consumption"].actual = Num(37750, 1)

\* C17: in the total record the five-month check and the yearly check are
\* made exactly when the respective submitted value is present; the
\* inflation-amount check is made only when the submitted yearly consumption
\* is present (and the submitted inflation amount with it) and expects
\* submitted yearly * rate / 100; the total-amount check is made only when
\* submitted yearly, inflation amount and total amount are all present and
\* expects submitted yearly + submitted inflation amount.  Neither uses the
\* yearly figure recomputed from the items.
C17_TotalChecksUseSubmitted ==
    ReturnedReport =>
        LET total == SubmittedTotal(extracted_data)
            t     == report.total_expenses_results
        IN  /\ "5_month_consumption" \in DOMAIN t <=> Present(total, "5_month_consumption")
            /\ "yearly_consumption" \in DOMAIN t <=> Present(total, "yearly_consumption")
            /\ "inflation_amount" \in DOMAIN t <=>
                   AllPresent(total, {"yearly_consumption", "inflation_amount"})
            /\ "inflation_amount" \in DOMAIN t =>
                   t["inflation_amount"].expected =
                       Round2(FDiv(FMul(total["yearly_consumption"], RateToUse(total)), Hundred))
            /\ "total_amount" \in DOMAIN t <=>
                   AllPresent(total, {"yearly_consumption", "inflation_amount", "total_amount"})
            /\ "total_amount" \in DOMAIN t =>
                   t["total_amount"].expected =
                       Round2(FAdd(total["yearly_consumption"], total["inflation_amount"]))

\* a total record whose submitted yearly figure is not the sum of the items:
\* the yearly check fails and the inflation and total checks pass
C17_Witness ==
    /\ ReturnedReport
    /\ LET total == SubmittedTotal(extracted_data)
           t     == report.total_expenses_results
       IN  /\ AllPresent(total, {"yearly_consumption", "inflation_rate", "inflation_amount", "total_amount"})
           /\ ~t["yearly_consumption"].correct
           /\ t["yearly_consumption"].expected # total["yearly_consumption"]
           /\ t["inflation_amount"].correct
           /\ t["total_amount"].correct

(***************************************************************************)
(* Claims about malformed tables, checked under SpecExtract.               *)
(***************************************************************************)
\* the data rows of a table that have the 3 cells an item needs
UsableRows(table) == {r \in 2..Len(table) : Len(table[r]) >= 3}

\* the most data rows with 3 cells of any one table of the document
MostUsableRows ==
    IF tables_data = <<>> THEN 0
    ELSE LET counts == {Cardinality(UsableRows(tables_data[t])) : t \in 1..Len(tables_data)}
         IN  CHOOSE n \in counts : \A c \in counts : c <= n

\* C13: _parse_budget_tables never raises for raw tables whose cells are
\* strings, numbers or None, empty tables, empty header rows and data rows
\* with fewer cells than headers included: it returns the record of four
\* sections, each item with every field of its kind (populated or None),
\* and no more items than there are data rows of 3 cells; a table with an
\* empty header row contributes nothing and a short row only loses its item.
C13_NeverRaises ==
    Extracted =>
        /\ ~Raised(result)
        /\ DOMAIN result = DOMAIN EmptyResult
        /\ \A i \in 1..Len(result.fixed_expenses) :
               DOMAIN result.fixed_expenses[i] = DOMAIN FixedItem \cup {"description"}
        /\ \A i \in 1..Len(result.variable_expenses) :
               DOMAIN result.variable_expenses[i] = DOMAIN VariableItem \cup {"description"}
        /\ DOMAIN result.total_expenses \in {{}, DOMAIN TotalRecord}
        /\ Len(result.fixed_expenses) <= MostUsableRows
        /\ Len(result.variable_expenses) <= MostUsableRows
        /\ (Len(tables_data) = 1 /\ Len(tables_data[1]) >= 1 /\ tables_data[1][1] = <<>>)
               => result = EmptyResult
        /\ tables_data = <<FixedShortRowTable>>
               => result.fixed_expenses = _parse_fixed_table(FixedStdTable)

C13_Witness ==
    /\ Extracted
    /\ tables_data = <<VariableShortRowTable>>
    /\ ~Raised(result)
    /\ Len(result.variable_expenses) = 1

(***************************************************************************)
(* Claims about the Extract & Grade handler, checked under SpecGrade.      *)
(***************************************************************************)
\* the handler called validate on the record the extractor returned
GradeAttempted == pc \in {"graded", "failed"} /\ extracted_data # None

\* C12: validate returns a report without raising for every canonical
\* record the rule-based extractor produces, also when a variable item's
\* five-month patient days are 0 and when the inflation-rate fields are
\* absent: no field that cannot be graded propagates an error to the caller.
C12_ValidateNeverRaises ==
    GradeAttempted => pc = "graded" /\ ~Raised(report) /\ st_error = <<>>

\* the Word document whose only table is the Office Supplies table, graded
\* at the tolerance 0.5
OfficeSuppliesUpload ==
    /\ uploaded_file.name = <<"b","u","d","g","e","t",".","d","o","c","x">>
    /\ uploaded_file.tables = <<FixedStdTable>>
    /\ tolerance = Num(1, 2)

\* the four derived fields of a fixed item
FixedDerived ==
    {"monthly_consumption", "2024_year_consumption", "inflation_amount",
     "estimated_2025_consumption"}

\* C18: the table with the seven standard headers and the data row
\* Office Supplies, 500, 100, 1200, 5, 60, 1260 is classified Fixed-Expenses,
\* each of its seven columns is mapped to its own field, one item is
\* extracted from it, and validate at tolerance 0.5 gives exactly four
\* results for the item, all of them correct.
C18_OfficeSuppliesEndToEnd ==
    OfficeSuppliesUpload =>
        /\ is_fixed(Headers(FixedStdTable))
        /\ ColMap(Headers(FixedStdTable), "fixed")
               = [key \in {"description", "5_month", "monthly", "2024_year", "inflation_rate",
                           "inflation_amount", "2025_estimate"} |->
                     CASE key = "description" -> 0 [] key = "5_month" -> 1
                       [] key = "monthly" -> 2 [] key = "2024_year" -> 3
                       [] key = "inflation_rate" -> 4 [] key = "inflation_amount" -> 5
                       [] key = "2025_estimate" -> 6]
        /\ pc \notin {"failed", "stopped"}
        /\ pc # "uploaded" =>
               /\ extracted_data.fixed_expenses
                      = <<FixedRecord(<<"O","f","f","i","c","e"," ","S","u","p","p","l","i","e","s">>, Num(500, 1), Num(100, 1), Num(1200, 1),
                                      Num(5, 1), Num(60, 1), Num(1260, 1))>>
               /\ extracted_data.variable_expenses = <<>>
               /\ extracted_data.total_expenses = EmptyDict
        /\ pc = "graded" =>
               /\ Len(report.fixed_expenses_results) = 1
               /\ report.fixed_expenses_results[1].description = <<"O","f","f","i","c","e"," ","S","u","p","p","l","i","e","s">>
               /\ DOMAIN report.fixed_expenses_results[1].validations = FixedDerived
               /\ \A key \in FixedDerived :
                      report.fixed_expenses_results[1].validations[key].correct
               /\ report.total_calculations = 4
               /\ report.correct_count = 4

C18_Witness ==
    /\ OfficeSuppliesUpload
    /\ pc = "graded"
    /\ report.total_calculations = 4

\* the extraction gave no fixed item and no variable item
BothListsEmpty ==
    /\ extracted_data # None
    /\ "fixed_expenses" \in DOMAIN extracted_data => extracted_data.fixed_expenses = <<>>
    /\ "variable_expenses" \in DOMAIN extracted_data => extracted_data.variable_expenses = <<>>

NoBudgetDataMessage ==
    WarningSign \o <<" ","N","o"," ","b","u","d","g","e","t"," ","d","a","t","a"," ","f","o","u","n","d"," ","i","n"," ","t","h","e"," ","d","o","c","u","m","e","n","t","."," ","P","l","e","a","s","e"," ","c","h","e","c","k"," ","t","h","e"," ","f","i","l","e"," ","f","o","r","m","a","t",".">>

\* C20: when the extraction gives an empty fixed_expenses list and an empty
\* variable_expenses list (a record with only a total record and the PDF
\* record without item lists included), the handler shows an error and the
\* validator is never called for the request: the step taken from the
\* extracted record is the refusal, and no report is ever stored.
C20_NoGradableDataRefused ==
    /\ [](BothListsEmpty =>
              /\ pc \in {"extracted", "stopped"}
              /\ report = None
              /\ pc = "stopped" => st_error = <<NoBudgetDataMessage>>)
    /\ [][(pc = "extracted" /\ BothListsEmpty) =>
              /\ pc' = "stopped"
              /\ st_error' = Append(st_error, NoBudgetDataMessage)
              /\ report' = report]_vars

C20_Witness ==
    /\ pc = "stopped"
    /\ BothListsEmpty
    /\ extracted_data.total_expenses # EmptyDict
    /\ st_error = <<NoBudgetDataMessage>>
    /\ report = None

(***************************************************************************)
(* Claims about DocumentParser.parse, checked under SpecGrade.             *)
(***************************************************************************)

\* the text of the name after its last ".", the whole name when it has
\* none, in lower case
Extension(name) ==
    LET dots == {i \in 1..Len(name) : name[i] = "."}
        last == IF dots = {} THEN 0 ELSE CHOOSE i \in dots : \A j \in dots : j <= i
    IN  Lower(SubSeq(name, last + 1, Len(name)))

Unsupported == Extension(uploaded_file.name) \notin {<<"d","o","c","x">>, <<"x","l","s","x">>, <<"p","d","f">>}

RECURSIVE TextLen(_, _)
TextLen(pages, n) == IF n = 0 THEN 0 ELSE TextLen(pages, n - 1) + Len(pages[n])

\* text is the texts of the pages one after the other, nothing between them
PagesInOrder(text, pages) ==
    /\ Len(text) = TextLen(pages, Len(pages))
    /\ \A p \in 1..Len(pages) :
           SubSeq(text, TextLen(pages, p - 1) + 1, TextLen(pages, p)) = pages[p]

TableFields ==
    {"fixed_expenses", "variable_expenses", "total_expenses", "patient_days_initial"}

\* C22: the record of a PDF source has needs_ai_extraction set and raw_text
\* equal to the concatenated text of the pages, and none of fixed_expenses,
\* variable_expenses, total_expenses and patient_days_initial; the record
\* of a Word or Excel source has neither the flag nor raw_text.
C22_PdfRecordIsRawText ==
    extracted_data # None =>
        /\ Extension(uploaded_file.name) = <<"p","d","f">> =>
               /\ DOMAIN extracted_data
                      = {"student_name", "department", "raw_text", "needs_ai_extraction"}
               /\ extracted_data.needs_ai_extraction = TRUE
               /\ PagesInOrder(extracted_data.raw_text, uploaded_file.pages)
               /\ DOMAIN extracted_data \cap TableFields = {}
        /\ Extension(uploaded_file.name) \in {<<"d","o","c","x">>, <<"x","l","s","x">>} =>
               /\ "raw_text" \notin DOMAIN extracted_data
               /\ "needs_ai_extraction" \notin DOMAIN extracted_data
               /\ TableFields \subseteq DOMAIN extracted_data

C22_Witness ==
    /\ extracted_data # None
    /\ uploaded_file.name = <<"b","u","d","g","e","t",".","p","d","f">>
    /\ Len(uploaded_file.pages) = 2
    /\ extracted_data.needs_ai_extraction
    /\ extracted_data.raw_text = uploaded_file.pages[1] \o uploaded_file.pages[2]

(***************************************************************************)
(* Claims about AIGrader, checked under SpecAI.                            *)
(***************************************************************************)

\* the response body an answer of the service carries for the provider, or
\* None when it carries none
ResponseBody(reply) ==
    IF reply.error \/ reply.text = None THEN None
    ELSE IF provider = "openai" THEN reply.text
    ELSE LET body == json_loads(reply.text.s)
         IN  IF Raised(body) \/ body.k # "dict" THEN None
             ELSE DictGet(body, <<"r","e","s","p","o","n","s","e">>, None)

\* the answer carries a response body and the body is valid JSON text,
\* with or without a markdown fence
WellFormed(reply) ==
    /\ ResponseBody(reply) # None
    /\ ResponseBody(reply).k = "str"
    /\ ~Raised(json_loads(Strip(Unfenced(Strip(ResponseBody(reply).s)))))

\* C23: for each provider, an answer of the service that is not valid
\* structured text or that lacks the response body makes _ai_extract_data
\* and _ai_validate raise, never return a record or report in its place;
\* and what they raise leaves grade, which stores no report.
C23_MalformedResponseRaises ==
    /\ pc = "extracted" => WellFormed(response[1])
    /\ pc = "returned" => WellFormed(response[2])
    /\ pc = "raised" => Raised(report)

(***************************************************************************)
(* Claims about the column rules, checked under SpecExtract.               *)
(***************************************************************************)

\* the document is one table of the kind with one data row, and the row
\* gave the item or record
OneRowTable(kind) ==
    /\ Extracted /\ OneTable
    /\ Len(tables_data[1]) = 2
    /\ KindOf(tables_data[1]) = kind
    /\ kind = "fixed" => Len(result.fixed_expenses) = 1
    /\ kind = "variable" => Len(result.variable_expenses) = 1
    /\ kind = "total" => result.total_expenses # EmptyDict

\* the number read from the last of the columns, None when there is none
LastColumn(cols) ==
    IF cols = {} THEN None
    ELSE _parse_number(tables_data[1][2][CHOOSE i \in cols : \A j \in cols : j <= i])

MentionsEstimate(h) == Contains(h, <<"2","0","2","5">>) \/ Contains(h, <<"e","s","t","i","m","a","t","e">>)

\* a rule that stands before the 2025/estimate rule takes the header
TakenEarlier(h) ==
    \/ Contains(h, <<"d","e","s","c","r","i","p","t","i","o","n">>) \/ Contains(h, <<"e","x","p","e","n","s","e">>) \/ Contains(h, <<"i","t","e","m">>)
    \/ Contains(h, <<"5">>) /\ Contains(h, <<"m","o","n","t","h">>)
    \/ /\ Contains(h, <<"m","o","n","t","h","l","y">>) /\ ~Contains(h, <<"2","0","2","4">>)
       /\ ~Contains(h, <<"2","0","2","5">>) /\ ~Contains(h, <<"y","e","a","r">>)

\* C24 (as amended): in a fixed-expenses table, every header that contains
\* "2025" or "estimate" and that none of the three rules before it takes
\* (description/expense/item, "5" with "month", monthly) is the
\* estimated_2025_consumption column, also when it contains "2024", the
\* last such header giving the value; year_2024_consumption is read only
\* from a header that contains "2024" and neither "2025" nor "estimate".
C24_EstimateBefore2024AfterEarlierRules ==
    OneRowTable("fixed") =>
        LET h == Headers(tables_data[1])
            item == result.fixed_expenses[1]
        IN  /\ item["estimated_2025_consumption"]
                   = LastColumn({i \in 1..Len(h) : MentionsEstimate(h[i]) /\ ~TakenEarlier(h[i])})
            /\ item["2024_year_consumption"]
                   = LastColumn({i \in 1..Len(h) : /\ Contains(h[i], <<"2","0","2","4">>)
                                                   /\ ~MentionsEstimate(h[i])
                                                   /\ ~TakenEarlier(h[i])})

\* C24: in a fixed-expenses table, every header that contains "2025" or
\* "estimate" is the estimated_2025_consumption column, also when it
\* contains "2024"; year_2024_consumption is read only from a header that
\* contains "2024" and neither "2025" nor "estimate".
C24_EstimateBefore2024 ==
    OneRowTable("fixed") =>
        LET h == Headers(tables_data[1])
            item == result.fixed_expenses[1]
        IN  /\ item["estimated_2025_consumption"]
                   = LastColumn({i \in 1..Len(h) : MentionsEstimate(h[i])})
            /\ item["2024_year_consumption"] # None =>
                   \E i \in 1..Len(h) : /\ Contains(h[i], <<"2","0","2","4">>) /\ ~MentionsEstimate(h[i])
                                        /\ item["2024_year_consumption"]
                                               = _parse_number(tables_data[1][2][i])

C24_Witness ==
    /\ OneRowTable("fixed")
    /\ Headers(tables_data[1])[3] = <<"e","s","t","i","m","a","t","e","d"," ","2","0","2","5"," ","(","f","r","o","m"," ","2","0","2","4"," ","b","a","s","e",")">>
    /\ Headers(tables_data[1])[2] = <<"2","0","2","4"," ","y","e","a","r">>
    /\ result.fixed_expenses[1]["estimated_2025_consumption"] = Num(22, 1)
    /\ result.fixed_expenses[1]["2024_year_consumption"] = Num(11, 1)

\* the header names the patients: it contains "pt" or "patient", with "day"
NamesPatientDays(h) == (Contains(h, <<"p","t">>) \/ Contains(h, <<"p","a","t","i","e","n","t">>)) /\ Contains(h, <<"d","a","y">>)

\* C25: in a variable-expenses table a patient-day field
\* (5_month_patient_days, consumption_per_patient_day,
\* estimated_2025_yearly_pt_days) is read only from a column whose header
\* contains "pt" or "patient" together with "day"; "5-month days" and
\* "yearly days" give none of these fields.
C25_PatientDayFieldsNeedPatient ==
    OneRowTable("variable") =>
        LET h == Headers(tables_data[1])
            item == result.variable_expenses[1]
        IN  \A field \in {"5_month_patient_days", "consumption_per_patient_day", "estimated_2025_yearly_pt_days"} :
                item[field] # None =>
                    \E i \in 1..Len(h) : /\ NamesPatientDays(h[i])
                                         /\ item[field] = _parse_number(tables_data[1][2][i])

\* C26: in a total-expenses table every header that contains "5" and
\* "month" is the five_month_consumption column, at whatever position it
\* stands, the last such header giving the value.
C26_FiveMonthAtAnyPosition ==
    OneRowTable("total") =>
        LET h == Headers(tables_data[1])
        IN  result.total_expenses["5_month_consumption"]
                = LastColumn({i \in 1..Len(h) : Contains(h[i], <<"5">>) /\ Contains(h[i], <<"m","o","n","t","h">>)})

(***************************************************************************)
(* Claims about the row loop, checked under SpecExtract.                   *)
(***************************************************************************)

\* the row has 3 cells and a cell at every mapped column
WholeRow(row, col_map) ==
    Len(row) >= 3 /\ \A key \in DOMAIN col_map : col_map[key] < Len(row)

\* every field of the item is taken from the row: the number of the cell
\* of its column, None when the field has no column
TakenFrom(item, row, col_map, fields) ==
    /\ item["description"] = Description(row, col_map)
    /\ \A f \in DOMAIN fields :
           item[f] = IF fields[f] \in DOMAIN col_map
                     THEN _parse_number(row[col_map[fields[f]] + 1]) ELSE None

\* C27: a data row of a fixed or variable table is emitted with every
\* mapped field taken from that row or not at all: a row with fewer than 3
\* cells and a row shorter than a mapped column give no item, and the rows
\* after a skipped row are still parsed (every whole row whose description
\* is kept gives its item, in row order).
C27_RowsWholeOrSkipped ==
    (Extracted /\ OneTable /\ KindOf(tables_data[1]) \in {"fixed", "variable"}) =>
        LET table == tables_data[1]
            kind == KindOf(table)
            items == IF kind = "fixed" THEN result.fixed_expenses ELSE result.variable_expenses
            fields == IF kind = "fixed" THEN FixedItem ELSE VariableItem
            col_map == ColMap(Headers(table), kind)
            whole == {r \in 2..Len(table) : WholeRow(table[r], col_map)}
            kept == {r \in whole : Appended(Description(table[r], col_map))}
        IN  /\ Len(items) = Cardinality(kept)
            /\ \A i \in 1..Len(items) :
                   \E r \in kept :
                       /\ Cardinality({q \in kept : q <= r}) = i
                       /\ TakenFrom(items[i], table[r], col_map, fields)

\* a row of 2 cells that has a cell at every mapped column, or a row of 3
\* cells under a header of 7 columns, is skipped and the row after it gives
\* the item
C27_Witness ==
    /\ Extracted /\ OneTable
    /\ Len(tables_data[1]) = 3
    /\ Len(result.fixed_expenses) = 1
    /\ \/ /\ tables_data[1][1] = FixedNotesHeader
          /\ Len(tables_data[1][2]) = 2
          /\ ~IndexError(tables_data[1][2], ColMap(Headers(tables_data[1]), "fixed"))
          /\ result.fixed_expenses[1]["5_month_consumption"] = _parse_number(tables_data[1][3][2])
       \/ /\ tables_data = <<FixedShortRowTable>>
          /\ ~WholeRow(tables_data[1][2], ColMap(Headers(tables_data[1]), "fixed"))
          /\ result.fixed_expenses[1]["estimated_2025_consumption"] # None

(***************************************************************************)
(* Claims about the session state, checked under SpecSession.              *)
(***************************************************************************)

\* a request of the session has ended
RequestEnded == pc \in {"graded", "failed", "stopped"}

\* C28: after any sequence of Extract-and-Grade requests of a session,
\* whenever an extracted record and a grading report are both stored, the
\* report is the one validate derives from that record; a request that
\* fails after extraction never leaves its record next to the report of a
\* document graded before.
C28_StoredReportIsOfStoredRecord ==
    (RequestEnded /\ extracted_data # None /\ report # None) =>
        report = validate([inflation_rate |-> inflation_rate, tolerance |-> tolerance],
                          extracted_data)

(***************************************************************************)
(* Claims about validate's frame, checked under SpecValidateTwice.         *)
(***************************************************************************)

\* a step of the behaviour is a call of validate
ValidateCalled == pc' \in {"validated", "validated_again"} /\ pc' # pc

ClassifiedAs(table) == IF Len(table) < 2 THEN "skipped" ELSE KindOf(table)

\* the field of the record a table of the kind is parsed into
SectionOf(kind) ==
    CASE kind = "fixed" -> "fixed_expenses"
      [] kind = "variable" -> "variable_expenses"
      [] kind = "total" -> "total_expenses"
      [] kind = "patient_days" -> "patient_days_initial"

\* the document without its table at position j
Without(tables, j) == SubSeq(tables, 1, j - 1) \o SubSeq(tables, j + 1, Len(tables))

Kinds == {"fixed", "variable", "total", "patient_days"}

\* C30: when a document has several tables classified as the same kind, the
\* record holds only the result of the last of them: the record is the one
\* of the document without the earlier table, also when the later table
\* yields no items, so items of different tables are never merged; and a
\* table of one kind never changes the fields of another kind.
C30_LastTableOfKindReplaces ==
    Extracted =>
        \A j \in 1..Len(tables_data) :
            LET kind == ClassifiedAs(tables_data[j])
                without == _parse_budget_tables(Without(tables_data, j))
            IN  /\ \A section \in DOMAIN result :
                       (kind \notin Kinds \/ section # SectionOf(kind))
                           => result[section] = without[section]
                /\ (\E later \in (j + 1)..Len(tables_data) :
                        kind \in Kinds /\ ClassifiedAs(tables_data[later]) = kind)
                       => result = without

\* a fixed table that gives an item stands before a fixed table that gives
\* none, with a variable table between them: the record has no fixed item
\* and the items of the variable table
C30_Witness ==
    /\ Extracted
    /\ tables_data = <<FixedStdTable, VariableTable, FixedFooterOnlyTable>>
    /\ _parse_fixed_table(tables_data[1]) # <<>>
    /\ result.fixed_expenses = <<>>
    /\ result.variable_expenses # <<>>

====
